---- MODULE Spec2Model ----
(***************************************************************************)
(* State-machine model of the SFTP synchronisation engine                  *)
(* (src/native-gui/main.go): the tree indexer, the snapshot comparator,    *)
(* the transfer pipeline with its retrying transferFile, the run           *)
(* coordinator SyncWithContext and the outcome classification of the       *)
(* presentation layer (runSync).                                           *)
(***************************************************************************)
EXTENDS Integers, Sequences, FiniteSets, TLC

VARIABLES
    SyncConfig,      \* SFTPSync.SyncConfig: the sync parameters of the run
    GOOS,            \* operating system the executable was built for
    sessions,        \* the two SFTP sessions as Connect left them
    srcFS,           \* files of the source endpoint (never written by the engine)
    dstFS,           \* objects of the destination endpoint, keyed by the path
                     \* below the destination root as the server received it
    destClock,       \* modification time the destination server gives a new object
    destAtStart,     \* dstFS as it was when the process started (read by no step)
    ctxDone,         \* the run's context has been cancelled (ctx.Done() is closed)
    stage,           \* position of SyncWithContext
    syncErr,         \* error value SyncWithContext returned
    status,          \* status shown by the presentation layer
    idx,             \* the running buildDirectoryGraphWithContextInternal pass
    scanner,         \* the bucket goroutines of the indexing passes
    destGraph,       \* snapshot returned for the destination
    sourceGraph,     \* snapshot returned for the source
    filesToSync,     \* the work list compareGraphs returned
    tasks,           \* the buffered channel of syncFilesWithContext
    worker,          \* the worker goroutines of syncFilesWithContext
    Stats,           \* SFTPSync.Stats
    syncPc,          \* position of syncFilesWithContext's own goroutine
    workerCancelled, \* workerCancel() has been called
    run,             \* which run this is, and what is remembered of its listings
                     \* and of the run before it
    webGui,          \* the WebGUI object, its runSync goroutine and its sync goroutine
    logs,            \* WebGUI.logs
    added,           \* number of entries AddLog has appended so far (read by no step)
    configFile,      \* sync section of config.json: the fields present, with their values
    environ,         \* the environment variables of the sync section that are set
    loaded           \* the SyncConfig the loader produced from configFile and environ

\* what no step of a run changes
cfgVars   == <<SyncConfig, GOOS, destAtStart>>
envVars   == <<srcFS, dstFS, destClock>>
coordVars == <<stage, syncErr, status, filesToSync>>
indexVars == <<idx, scanner, destGraph, sourceGraph>>
pipeVars  == <<tasks, worker, Stats, syncPc, workerCancelled>>
engineVars == <<SyncConfig, GOOS, sessions, srcFS, dstFS, destClock, destAtStart, ctxDone,
                stage, syncErr, status,
                idx, scanner, destGraph, sourceGraph, filesToSync, tasks, worker, Stats, syncPc,
                workerCancelled, run>>

\* the presentation layer and the configuration loader: state outside the engine
appVars == <<webGui, logs, added, configFile, environ, loaded>>

vars == <<engineVars, appVars>>

-----------------------------------------------------------------------------
(* Bounds of the model *)

MaxConcurrent == 2      \* largest MaxConcurrentTransfers explored
MaxRetryAttempts == 2   \* largest RetryAttempts explored
MaxDays == 2            \* largest DaysToSync explored
MaxChunks == 1          \* largest file size, in chunks of ChunkSize bytes
MaxTime == 2            \* modification times are 1..MaxTime
MaxAdds == 502          \* largest number of entries AddLog is asked to append

Times == 1..MaxTime

NoFile == [absent |-> TRUE]
NoJob == [none |-> TRUE]
NoGraph == [nograph |-> TRUE]

-----------------------------------------------------------------------------
(* Paths.  A path below a root is [dir, base, ext, sep]: the directory, the  *)
(* file name without trailing ".tmp" suffixes, the number of such suffixes,  *)
(* and the character that stands between the directory and the file name.    *)
(* The paths of both servers are written with "/".                           *)

Rel(d, b, e) == [dir |-> d, base |-> b, ext |-> e, sep |-> "/"]

\* the targets of build-all.sh: "/" is the separator of package filepath on
\* linux and darwin, "\\" on windows
Platforms == {"linux", "windows"}

\* filepath.Rel(rootPath, fullPath): the path below the root, cleaned by
\* filepath.Clean, which writes every separator as the one of the build's
\* operating system.
filepathRel(goos, p) == [p EXCEPT !.sep = IF goos = "windows" THEN "\\" ELSE "/"]

\* generateDateDirectories: the names of the last `days` days, newest first.
AllBuckets == <<"d1", "d2", "d3">>

generateDateDirectories(days) ==
    [i \in 1..(IF days < 0 THEN 0 ELSE IF days > Len(AllBuckets) THEN Len(AllBuckets) ELSE days)
        |-> AllBuckets[i]]

\* The directory tree of both endpoints: bucket d1 has the subdirectory d1/s.
SubDirs(d) == IF d = "d1" THEN {"d1/s"} ELSE {}

AllDirs == {"d1", "d1/s", "d2", "d3"}

\* transferFile: tempPath := destPath + ".tmp"
TempPath(p) == [p EXCEPT !.ext = @ + 1]

\* the directory of the server an object is an entry of: a name written with
\* "\\" has no "/" in it, and is an entry of the root
DirOf(p) == IF p.sep = "/" THEN p.dir ELSE "."

\* shouldExcludeFile: strings.Contains(filePath, pattern) for the pattern ".tmp"
\* (the only pattern the model configures; SyncConfig.ExcludePatterns is a set).
shouldExcludeFile(cfg, p) ==
    \E pattern \in cfg.ExcludePatterns : pattern = ".tmp" /\ p.ext > 0

-----------------------------------------------------------------------------
(* Files.  A remote file is [data, mtime]; data is its content as a sequence *)
(* of chunks (one chunk is what one Read of ChunkSize bytes returns), so its *)
(* listed size is Len(data).  Chunk 0 is a chunk that was stored wrongly.    *)

BadChunk == 0

FileSize(f) == Len(f.data)

\* FileInfo as scanDirectory builds it from a directory entry.
FileInfoOf(root, p, f) ==
    [Path |-> <<root, p>>, Size |-> FileSize(f), ModTime |-> f.mtime,
     RelativePath |-> filepathRel(GOOS, p)]

\* path.Join(s.SyncConfig.DestinationPath, relativePath)
DestPathOf(relativePath) == <<"dst", relativePath>>

NewDirectoryGraph(root) == [RootPath |-> root, Files |-> <<>>, Dirs |-> {}]

\* md5 of the bytes fed to a hasher: modelled as the fed bytes themselves
\* (collisions ignored).
Md5Sum(fed) == fed

-----------------------------------------------------------------------------
(* Snapshot comparator *)

\* NeedsSync without the else branch of lines 497-500: a file with no
\* destination record is left out of the work list.
NeedsSync_OnlyChanged(sourceFile, destFiles) ==
    LET destPath == DestPathOf(sourceFile.RelativePath) IN
    IF destPath \in DOMAIN destFiles
    THEN \/ sourceFile.Size # destFiles[destPath].Size
         \/ sourceFile.ModTime > destFiles[destPath].ModTime
    ELSE FALSE

\* compareGraphs, lines 486-500: does the source file go to the work list?
\* The destination record is looked up under DestinationPath joined with the
\* RelativePath of the source file.
NeedsSync(sourceFile, destFiles) ==
    LET destPath == DestPathOf(sourceFile.RelativePath) IN
    IF destPath \in DOMAIN destFiles
    THEN \/ sourceFile.Size # destFiles[destPath].Size
         \/ sourceFile.ModTime > destFiles[destPath].ModTime
    ELSE TRUE

\* compareGraphs: the source files appended to filesToSync.
FilesToSyncSet(sGraph, dGraph) ==
    {sGraph.Files[k] : k \in {x \in DOMAIN sGraph.Files : NeedsSync(sGraph.Files[x], dGraph.Files)}}

\* SkippedCount with SkippedFiles++ for every source file found at the
\* destination, appended or not
SkippedCount_Found(sGraph, dGraph) ==
    Cardinality({x \in DOMAIN sGraph.Files :
                    DestPathOf(sGraph.Files[x].RelativePath) \in DOMAIN dGraph.Files})

\* compareGraphs: the number of s.Stats.SkippedFiles++ executed.
SkippedCount(sGraph, dGraph) ==
    Cardinality({x \in DOMAIN sGraph.Files : ~NeedsSync(sGraph.Files[x], dGraph.Files)})

\* SortedBySize without the sort: the slice in any map-iteration order
SortedBySize_AnyOrder(S) ==
    {q \in [1..Cardinality(S) -> S] :
        \A i, j \in 1..Cardinality(S) : i # j => q[i] # q[j]}

\* sort.Slice by Size over a slice filled in map-iteration order: every
\* arrangement of the set that is non-decreasing in Size can come out.
SortedBySize(S) ==
    {q \in [1..Cardinality(S) -> S] :
        /\ \A i, j \in 1..Cardinality(S) : i # j => q[i] # q[j]
        /\ \A i, j \in 1..Cardinality(S) : i < j => q[i].Size <= q[j].Size}

\* compareGraphs: the work lists it can return.
compareGraphs(sGraph, dGraph) == SortedBySize(FilesToSyncSet(sGraph, dGraph))

-----------------------------------------------------------------------------
(* Transfer pipeline: syncFilesWithContext and transferFile *)

\* NumWorkers with one worker more than configured
NumWorkers_OneMore(cfg) ==
    IF cfg.MaxConcurrentTransfers <= 0 THEN 1 ELSE cfg.MaxConcurrentTransfers + 1

\* syncFilesWithContext, lines 867-870: the number of worker goroutines
NumWorkers(cfg) ==
    IF cfg.MaxConcurrentTransfers <= 0 THEN 1 ELSE cfg.MaxConcurrentTransfers

\* workerCtx is derived from ctx: done when ctx is, or when workerCancel ran.
workerCtxDone == ctxDone \/ workerCancelled

NewWorker ==
    [pc |-> "select", file |-> NoJob, attempt |-> 0, lastErr |-> "nil",
     raised |-> FALSE, abandoned |-> FALSE, pos |-> 0,
     srcHasher |-> <<>>, destHasher |-> <<>>, res |-> "none"]

TransferPcs == {"mkdir", "open", "create", "copy", "spin", "rename", "chtimes"}

InFlight == {w \in DOMAIN worker : worker[w].pc \in TransferPcs}

DestRel(ws) == ws.file.RelativePath
TempRel(ws) == TempPath(ws.file.RelativePath)

\* s.destClient.Remove(path): the error is ignored
Remove(fs, p) == [fs EXCEPT ![p] = NoFile]

\* LoopHead with the loop condition attempt <= RetryAttempts
LoopHead_OneMore(cfg, ws, a) ==
    IF a <= cfg.RetryAttempts
    THEN [ws EXCEPT !.attempt = a, !.pc = "open", !.raised = FALSE, !.pos = 0,
                    !.srcHasher = <<>>, !.destHasher = <<>>]
    ELSE [ws EXCEPT !.attempt = a, !.pc = "record", !.res = "exhausted", !.pos = 0,
                    !.srcHasher = <<>>, !.destHasher = <<>>]

\* transferFile, the head of the retry loop (line 653) reached by `continue`
\* or on entry: attempt++ and the loop condition.
LoopHead(cfg, ws, a) ==
    IF a < cfg.RetryAttempts
    THEN [ws EXCEPT !.attempt = a, !.pc = "open", !.raised = FALSE, !.pos = 0,
                    !.srcHasher = <<>>, !.destHasher = <<>>]
    ELSE [ws EXCEPT !.attempt = a, !.pc = "record", !.res = "exhausted", !.pos = 0,
                    !.srcHasher = <<>>, !.destHasher = <<>>]

\* `lastErr = fmt.Errorf(...); continue`.  Only lastErr != nil is ever tested,
\* so the error text is left out: lastErr is "nil" or "error".
FailAttempt(cfg, ws) ==
    LoopHead(cfg, [ws EXCEPT !.lastErr = "error", !.raised = TRUE], ws.attempt + 1)

\* transferFile, lines 725-729: the comparison of the two digests.
HashMismatch(cfg, ws) ==
    cfg.VerifyTransfers /\ Md5Sum(ws.srcHasher) # Md5Sum(ws.destHasher)

\* transferFile, lines 717-734: what follows the copy loop.  lastErr is the
\* variable declared before the retry loop (line 652); it is tested here and
\* never reset, so an error of an earlier attempt is still in it.
AfterCopy(cfg, ws) ==
    IF ws.lastErr # "nil"
    THEN LoopHead(cfg, [ws EXCEPT !.abandoned = @ \/ ~ws.raised], ws.attempt + 1)
    ELSE IF HashMismatch(cfg, ws)
         THEN FailAttempt(cfg, ws)
         ELSE [ws EXCEPT !.pc = "rename"]

\* WorkerSelect with a receive that leaves the job in the channel
WorkerSelect_Peek(w) ==
    /\ worker[w].pc = "select"
    /\ \/ /\ workerCtxDone
          /\ worker' = [worker EXCEPT ![w].pc = "exit"]
          /\ UNCHANGED tasks
       \/ /\ tasks # <<>>
          /\ worker' = [worker EXCEPT ![w].pc = "check", ![w].file = Head(tasks)]
          /\ UNCHANGED tasks
       \/ /\ tasks = <<>>
          /\ worker' = [worker EXCEPT ![w].pc = "exit"]
          /\ UNCHANGED tasks
    /\ UNCHANGED <<cfgVars, appVars, sessions, envVars, ctxDone, coordVars, indexVars, Stats,
                   syncPc, workerCancelled, run>>

\* the worker loop, lines 881-887: the select over workerCtx.Done() and tasks
\* (tasks was filled and closed before the workers started).
WorkerSelect(w) ==
    /\ worker[w].pc = "select"
    /\ \/ /\ workerCtxDone
          /\ worker' = [worker EXCEPT ![w].pc = "exit"]
          /\ UNCHANGED tasks
       \/ /\ tasks # <<>>
          /\ worker' = [worker EXCEPT ![w].pc = "check", ![w].file = Head(tasks)]
          /\ tasks' = Tail(tasks)
       \/ /\ tasks = <<>>
          /\ worker' = [worker EXCEPT ![w].pc = "exit"]
          /\ UNCHANGED tasks
    /\ UNCHANGED <<cfgVars, appVars, sessions, envVars, ctxDone, coordVars, indexVars, Stats,
                   syncPc, workerCancelled, run>>

\* CancelledBeforeFile with the check of lines 889-894 taken out
CancelledBeforeFile_Never == FALSE

\* CancelledBeforeFile on a context that is not derived from ctx: done only
\* once workerCancel() was called
CancelledBeforeFile_OwnCancel == workerCancelled

\* lines 889-894: the cancellation check before each file.
CancelledBeforeFile == workerCtxDone

\* lines 889-896: drop the file when cancelled, else enter transferFile.  The
\* default branch of the check and the call that follows it are one step: a
\* worker that is past the check has started its job.
WorkerCheck(w) ==
    /\ worker[w].pc = "check"
    /\ worker' = [worker EXCEPT ![w].pc = IF CancelledBeforeFile THEN "exit" ELSE "mkdir"]
    /\ UNCHANGED <<cfgVars, appVars, sessions, envVars, ctxDone, coordVars, indexVars, tasks, Stats,
                   syncPc, workerCancelled, run>>

\* transferFile, lines 642-653: MkdirAll of the parent directory, then the
\* first evaluation of the loop condition.
TransferMkdir(w) ==
    /\ worker[w].pc = "mkdir"
    /\ \/ worker' = [worker EXCEPT ![w] = LoopHead(SyncConfig, worker[w], 0)]
       \/ worker' = [worker EXCEPT ![w].pc = "record", ![w].res = "mkdir"]
    /\ UNCHANGED <<cfgVars, appVars, sessions, envVars, ctxDone, coordVars, indexVars, tasks, Stats,
                   syncPc, workerCancelled, run>>

\* lines 654-664: (the retry delay, then) s.sourceClient.Open
TransferOpen(w) ==
    /\ worker[w].pc = "open"
    /\ \/ worker' = [worker EXCEPT ![w].pc = "create"]
       \/ worker' = [worker EXCEPT ![w] = FailAttempt(SyncConfig, worker[w])]
    /\ UNCHANGED <<cfgVars, appVars, sessions, envVars, ctxDone, coordVars, indexVars, tasks, Stats,
                   syncPc, workerCancelled, run>>

\* line 682: make([]byte, ChunkSize) panics on a negative length.
BufferPanics(cfg) == cfg.ChunkSize < 0

\* lines 666-682: s.destClient.Create(tempPath) truncates or creates the
\* temporary object; new hashers; the buffer.  A panic in a worker goroutine
\* is recovered nowhere: the process ends, and every goroutine with it.
TransferCreate(w) ==
    /\ worker[w].pc = "create"
    /\ \/ /\ worker' = IF BufferPanics(SyncConfig)
                        THEN [v \in DOMAIN worker |-> [worker[v] EXCEPT !.pc = "dead"]]
                        ELSE [worker EXCEPT ![w].pc = "copy"]
          /\ dstFS' = [dstFS EXCEPT ![TempRel(worker[w])] =
                                        [data |-> <<>>, mtime |-> destClock]]
          /\ stage' = IF BufferPanics(SyncConfig) THEN "crashed" ELSE stage
          /\ syncPc' = IF BufferPanics(SyncConfig) THEN "dead" ELSE syncPc
       \/ /\ worker' = [worker EXCEPT ![w] = FailAttempt(SyncConfig, worker[w])]
          /\ UNCHANGED <<dstFS, stage, syncPc>>
    /\ UNCHANGED <<cfgVars, appVars, sessions, srcFS, destClock, ctxDone, syncErr, status, filesToSync,
                   indexVars, tasks, Stats, workerCancelled, run>>

\* destFile.Write(buffer[:n]) without error: what the server stores.  The
\* object may have been removed or renamed away under the open handle.
Stored(fs, p, c) ==
    IF fs[p] = NoFile THEN fs ELSE [fs EXCEPT ![p].data = Append(@, c)]

\* lines 684-722 (and 725-734): one iteration of the copy loop.  Read returns
\* the next chunk, or (0, io.EOF) at the end, or an error; Write stores the
\* chunk, stores it wrongly, or returns an error.  (A Read returning n > 0
\* together with an error is the chunk step followed by the error step.)
\* With ChunkSize = 0 the buffer is empty: Read returns 0 bytes, with io.EOF
\* (the loop ends with nothing copied) or with a nil error every time (the
\* loop never ends: pc "spin").
TransferCopy(w) ==
    LET ws == worker[w]
        src == srcFS[ws.file.Path[2]]
        tmp == TempRel(ws)
    IN
    /\ ws.pc = "copy"
    /\ \/ \* a chunk is read and written
          /\ SyncConfig.ChunkSize > 0
          /\ src # NoFile /\ ws.pos < Len(src.data)
          /\ \E c \in {src.data[ws.pos + 1], BadChunk} :
                /\ dstFS' = Stored(dstFS, tmp, c)
                /\ worker' = [worker EXCEPT
                      ![w].pos = @ + 1,
                      ![w].srcHasher = IF SyncConfig.VerifyTransfers
                                       THEN Append(@, src.data[ws.pos + 1]) ELSE @,
                      ![w].destHasher = IF SyncConfig.VerifyTransfers
                                        THEN Append(@, src.data[ws.pos + 1]) ELSE @]
       \/ \* a chunk is read, Write fails
          /\ SyncConfig.ChunkSize > 0
          /\ src # NoFile /\ ws.pos < Len(src.data)
          /\ dstFS' = Remove(dstFS, tmp)
          /\ worker' = [worker EXCEPT ![w] =
                AfterCopy(SyncConfig, [ws EXCEPT !.lastErr = "error", !.raised = TRUE])]
       \/ \* Read fails
          /\ dstFS' = Remove(dstFS, tmp)
          /\ worker' = [worker EXCEPT ![w] =
                AfterCopy(SyncConfig, [ws EXCEPT !.lastErr = "error", !.raised = TRUE])]
       \/ \* end of stream
          /\ src # NoFile /\ (ws.pos = Len(src.data) \/ SyncConfig.ChunkSize = 0)
          /\ LET nws == AfterCopy(SyncConfig, ws) IN
                /\ worker' = [worker EXCEPT ![w] = nws]
                /\ dstFS' = IF ws.lastErr = "nil" /\ HashMismatch(SyncConfig, ws)
                            THEN Remove(dstFS, tmp) ELSE dstFS
       \/ \* every Read into the empty buffer returns (0, nil)
          /\ SyncConfig.ChunkSize = 0
          /\ worker' = [worker EXCEPT ![w].pc = "spin"]
          /\ UNCHANGED dstFS
    /\ UNCHANGED <<cfgVars, appVars, sessions, srcFS, destClock, ctxDone, coordVars, indexVars, tasks,
                   Stats, syncPc, workerCancelled, run>>

\* lines 736-741: s.destClient.Rename(tempPath, destPath); on error the
\* temporary object is removed.
TransferRename(w) ==
    LET ws == worker[w]
        tmp == TempRel(ws)
    IN
    /\ ws.pc = "rename"
    /\ \/ /\ dstFS[tmp] # NoFile
          /\ dstFS' = [dstFS EXCEPT ![DestRel(ws)] = dstFS[tmp], ![tmp] = NoFile]
          /\ worker' = [worker EXCEPT ![w].pc = "chtimes"]
       \/ /\ dstFS' = Remove(dstFS, tmp)
          /\ worker' = [worker EXCEPT ![w] = FailAttempt(SyncConfig, ws)]
    /\ UNCHANGED <<cfgVars, appVars, sessions, srcFS, destClock, ctxDone, coordVars, indexVars, tasks,
                   Stats, syncPc, workerCancelled, run>>

\* lines 743-749: Chtimes is best effort; transferFile returns nil.
TransferChtimes(w) ==
    LET ws == worker[w] IN
    /\ ws.pc = "chtimes"
    /\ \/ /\ dstFS[DestRel(ws)] # NoFile
          /\ dstFS' = [dstFS EXCEPT ![DestRel(ws)].mtime = ws.file.ModTime]
       \/ UNCHANGED dstFS
    /\ worker' = [worker EXCEPT ![w].pc = "record", ![w].res = "ok"]
    /\ UNCHANGED <<cfgVars, appVars, sessions, srcFS, destClock, ctxDone, coordVars, indexVars, tasks,
                   Stats, syncPc, workerCancelled, run>>

\* RecordResult with the FailedFiles++ of line 899 lost
RecordResult_Lost(st, ws) ==
    IF ws.res # "ok"
    THEN st
    ELSE [st EXCEPT !.TransferredFiles = @ + 1, !.TotalBytes = @ + ws.file.Size]

\* lines 896-906: the result of transferFile is counted under the lock.
\* res is what transferFile returned: "ok" for nil, "mkdir" for the error of
\* line 648, "exhausted" for the error of line 752.
RecordResult(st, ws) ==
    IF ws.res # "ok"
    THEN [st EXCEPT !.FailedFiles = @ + 1]
    ELSE [st EXCEPT !.TransferredFiles = @ + 1, !.TotalBytes = @ + ws.file.Size]

WorkerRecord(w) ==
    /\ worker[w].pc = "record"
    /\ Stats' = RecordResult(Stats, worker[w])
    /\ worker' = [worker EXCEPT ![w] = NewWorker]
    /\ UNCHANGED <<cfgVars, appVars, sessions, envVars, ctxDone, coordVars, indexVars, tasks,
                   syncPc, workerCancelled, run>>

AllWorkersExited == \A w \in DOMAIN worker : worker[w].pc = "exit"

-----------------------------------------------------------------------------
(* Tree indexer: buildDirectoryGraphWithContext(Internal) and scanDirectory *)

FSOf(client) == IF client = "dst" THEN dstFS ELSE srcFS

\* client: the endpoint being indexed; graph: the graph under construction;
\* cancelled: the channel `cancelled` is closed; failed: the directories whose
\* ReadDir returned an error in this pass (what the log of lines 366 and 416
\* records).
NoPass == [client |-> "none", graph |-> NoGraph, cancelled |-> FALSE, failed |-> {}]

\* the directory entries ReadDir returns: the files of the directory that pass
\* shouldExcludeFile, as FileInfo keyed by full path (graph.AddFile).
ListedFiles(cfg, client, fs, d) ==
    LET ps == {p \in DOMAIN fs : fs[p] # NoFile /\ DirOf(p) = d /\ ~shouldExcludeFile(cfg, p)}
    IN [k \in {<<client, p>> : p \in ps} |-> FileInfoOf(client, k[2], fs[k[2]])]

\* AddListing with the file map replaced by the listing instead of added to
AddListing_Replacing(graph, cfg, client, fs, d) ==
    [graph EXCEPT !.Dirs = @ \cup {d},
                  !.Files = ListedFiles(cfg, client, fs, d)]

\* AddListing with graph.AddDir (line 404) left out
AddListing_NoDir(graph, cfg, client, fs, d) ==
    [graph EXCEPT !.Files = ListedFiles(cfg, client, fs, d) @@ @]

\* graph.AddDir and graph.AddFile for one listed directory (lines 404-441)
AddListing(graph, cfg, client, fs, d) ==
    [graph EXCEPT !.Dirs = @ \cup {d},
                  !.Files = ListedFiles(cfg, client, fs, d) @@ @]

SetToSeq(S) == CHOOSE q \in [1..Cardinality(S) -> S] : \A i, j \in 1..Cardinality(S) : i # j => q[i] # q[j]

Held == Cardinality({b \in DOMAIN scanner : scanner[b].pc = "scan"})

\* lines 829-838 and 289-370: the check on entry, then the semaphore of size
\* MaxConcurrentTransfers (make panics on a negative size) and one goroutine
\* per date directory.
BuildStart ==
    /\ stage \in {"buildDest", "buildSource"}
    /\ idx.client = "none"
    /\ IF ctxDone
       THEN /\ stage' = "returned"
            /\ syncErr' = IF stage = "buildDest" THEN "BuildDestGraphError"
                                                 ELSE "BuildSourceGraphError"
            /\ UNCHANGED <<idx, scanner>>
       ELSE IF SyncConfig.MaxConcurrentTransfers < 0
       THEN /\ stage' = "panicked"
            /\ UNCHANGED <<syncErr, idx, scanner>>
       ELSE /\ LET client == IF stage = "buildDest" THEN "dst" ELSE "src" IN
                 idx' = [client |-> client, graph |-> NewDirectoryGraph(client),
                         cancelled |-> FALSE, failed |-> {}]
            /\ scanner' = [b \in DOMAIN generateDateDirectories(SyncConfig.DaysToSync) |->
                              [pc |-> "wait", stack |-> <<>>]]
            /\ UNCHANGED <<stage, syncErr>>
    /\ UNCHANGED <<cfgVars, appVars, sessions, envVars, ctxDone, status, filesToSync, destGraph,
                   sourceGraph, pipeVars, run>>

\* lines 346-350: the goroutine that closes `cancelled` once ctx is done.
MonitorCancel ==
    /\ idx.client # "none"
    /\ ctxDone /\ ~idx.cancelled
    /\ idx' = [idx EXCEPT !.cancelled = TRUE]
    /\ UNCHANGED <<cfgVars, appVars, sessions, envVars, ctxDone, coordVars, scanner, destGraph,
                   sourceGraph, pipeVars, run>>

\* SlotFree with a channel of capacity MaxConcurrentTransfers + 1
SlotFree_OneMore(cfg, held) == held <= cfg.MaxConcurrentTransfers

\* a slot of the semaphore channel is free
SlotFree(cfg, held) == held < cfg.MaxConcurrentTransfers

\* lines 354-364: a bucket goroutine waits for `cancelled` or a semaphore slot.
ScanAcquire(b) ==
    /\ scanner[b].pc = "wait"
    /\ \/ /\ idx.cancelled
          /\ scanner' = [scanner EXCEPT ![b].pc = "done"]
       \/ /\ SlotFree(SyncConfig, Held)
          /\ scanner' = [scanner EXCEPT ![b].pc = "scan",
                            ![b].stack = <<generateDateDirectories(SyncConfig.DaysToSync)[b]>>]
    /\ UNCHANGED <<cfgVars, appVars, sessions, envVars, ctxDone, coordVars, idx, destGraph,
                   sourceGraph, pipeVars, run>>

\* scanDirectory, lines 398-445, for the directory on top of the recursion:
\* ReadDir fails (the bucket's scan ends, a subdirectory is skipped) or the
\* directory and its files are added and its subdirectories are descended.
ScanDir(b) ==
    LET sc == scanner[b]
        d == Head(sc.stack)
        rest == Tail(sc.stack)
        Fin(st) == IF st = <<>> THEN "done" ELSE "scan"
    IN
    /\ sc.pc = "scan"
    /\ \/ /\ scanner' = [scanner EXCEPT ![b].stack = rest, ![b].pc = Fin(rest)]
          /\ run' = [run EXCEPT !.listFailed = TRUE]
          /\ idx' = [idx EXCEPT !.failed = @ \cup {d}]
       \/ /\ idx' = [idx EXCEPT !.graph = AddListing(@, SyncConfig, idx.client, FSOf(idx.client), d)]
          /\ LET st == SetToSeq(SubDirs(d)) \o rest IN
                scanner' = [scanner EXCEPT ![b].stack = st, ![b].pc = Fin(st)]
          /\ UNCHANGED run
    /\ UNCHANGED <<cfgVars, appVars, sessions, envVars, ctxDone, coordVars, destGraph, sourceGraph,
                   pipeVars>>

\* AllScannersDone with wg.Wait() returning after the first wg.Done()
AllScannersDone_AnyDone == \E b \in DOMAIN scanner : scanner[b].pc = "done"

\* lines 372-376: wg.Wait() has returned and waitDone is closed
AllScannersDone == \A b \in DOMAIN scanner : scanner[b].pc = "done"

\* lines 372-395 and the caller's error handling (lines 779-796): the pass
\* returns its graph when every bucket goroutine is done, or (nil, ctx.Err())
\* when ctx is done; SyncWithContext wraps that error with %v.
BuildReturn ==
    /\ idx.client # "none"
    /\ stage \in {"buildDest", "buildSource"}
    /\ \/ /\ AllScannersDone
          /\ IF idx.client = "dst"
             THEN /\ destGraph' = idx.graph
                  /\ stage' = "checkB"
                  /\ UNCHANGED sourceGraph
             ELSE /\ sourceGraph' = idx.graph
                  /\ stage' = "checkC"
                  /\ UNCHANGED destGraph
          /\ idx' = NoPass
          /\ scanner' = <<>>
          /\ UNCHANGED syncErr
       \/ /\ ctxDone
          /\ stage' = "returned"
          /\ syncErr' = IF idx.client = "dst" THEN "BuildDestGraphError"
                                              ELSE "BuildSourceGraphError"
          /\ UNCHANGED <<idx, scanner, destGraph, sourceGraph>>
    /\ UNCHANGED <<cfgVars, appVars, sessions, envVars, ctxDone, status, filesToSync, pipeVars, run>>

-----------------------------------------------------------------------------
(* Run coordinator: SyncWithContext, and the caller's runSync *)

\* n: 1 for the first run of the process, 2 for the next one; listFailed: a
\* ReadDir of this run failed; prev: the earlier run's FailedFiles and
\* TransferredFiles, whether one of its ReadDir calls failed, whether its
\* context was cancelled, and whether every destination copy it left is at
\* least as new as its source file.
NoRun == [failed |-> 0, transferred |-> 0, listFailed |-> FALSE,
          cancelled |-> FALSE, timesKept |-> TRUE]
FirstRun == [n |-> 1, listFailed |-> FALSE, prev |-> NoRun]

NewStats == [TotalFiles |-> 0, TransferredFiles |-> 0, SkippedFiles |-> 0,
             FailedFiles |-> 0, TotalBytes |-> 0]

\* the cancel function of the run's context is called (onStopClick,
\* stopHandler); a second call changes nothing.
Cancel ==
    /\ stage \notin {"returned", "panicked", "crashed"}
    /\ ~ctxDone
    /\ ctxDone' = TRUE
    /\ UNCHANGED <<cfgVars, appVars, sessions, envVars, coordVars, indexVars, pipeVars, run>>

NoSessions == [src |-> "none", dst |-> "none"]

\* the ways Connect can go: both connectSFTP calls succeed, the first fails,
\* the first succeeds and the second fails
ConnectOutcomes == {"ok", "sourceFails", "destFails"}

\* ConnectResult with lines 148-149 left out
ConnectResult_SourceLeftOpen(o) ==
    CASE o = "ok" -> [src |-> "open", dst |-> "open"]
      [] o = "sourceFails" -> NoSessions
      [] o = "destFails" -> [src |-> "open", dst |-> "none"]

\* Connect, lines 135-155: the sessions it leaves.  connectSFTP returns no
\* session with its error (line 209 closes the SSH client of a failed SFTP
\* handshake); after a failure for the destination, sourceClient and
\* sourceSSH are closed (lines 148-149).
ConnectResult(o) ==
    CASE o = "ok" -> [src |-> "open", dst |-> "open"]
      [] o = "sourceFails" -> NoSessions
      [] o = "destFails" -> [src |-> "closed", dst |-> "none"]

\* lines 761-764 (Connect, lines 135-155): both sessions, or the error.
Connect ==
    /\ stage = "connect"
    /\ \E o \in ConnectOutcomes :
          /\ sessions' = ConnectResult(o)
          /\ IF o = "ok"
             THEN stage' = "checkA" /\ UNCHANGED syncErr
             ELSE stage' = "returned" /\ syncErr' = "ConnectError"
    /\ UNCHANGED <<cfgVars, appVars, envVars, ctxDone, status, filesToSync, indexVars,
                   pipeVars, run>>

\* NextStage with the source indexing pass (line 793) left out
NextStage_SkipSource(st) ==
    CASE st = "checkA" -> "buildDest"
      [] st = "checkB" -> "compare"
      [] st = "checkC" -> "compare"

\* SyncWithContext, lines 773-807: the stage that follows each check.
NextStage(st) ==
    CASE st = "checkA" -> "buildDest"
      [] st = "checkB" -> "buildSource"
      [] st = "checkC" -> "compare"

\* lines 766-771, 784-789, 798-803: the checks between the stages return
\* ctx.Err() itself.
StageCheck ==
    /\ stage \in {"checkA", "checkB", "checkC"}
    /\ IF ctxDone
       THEN stage' = "returned" /\ syncErr' = "Canceled"
       ELSE stage' = NextStage(stage) /\ UNCHANGED syncErr
    /\ UNCHANGED <<cfgVars, appVars, sessions, envVars, ctxDone, status, filesToSync, indexVars,
                   pipeVars, run>>

\* line 807: compareGraphs, with its SkippedFiles++.
Compare ==
    /\ stage = "compare"
    /\ \E q \in compareGraphs(sourceGraph, destGraph) : filesToSync' = q
    /\ Stats' = [Stats EXCEPT !.SkippedFiles = @ + SkippedCount(sourceGraph, destGraph)]
    /\ stage' = "sync"
    /\ UNCHANGED <<cfgVars, appVars, sessions, envVars, ctxDone, syncErr, status, indexVars, tasks,
                   worker, syncPc, workerCancelled, run>>

\* lines 841-910: the entry of syncFilesWithContext: the cancellation check,
\* the empty work list, TotalFiles, the tasks channel and the workers.
SyncStart ==
    /\ stage = "sync" /\ syncPc = "idle"
    /\ IF ctxDone
       THEN /\ stage' = "returned" /\ syncErr' = "SyncFilesError"
            /\ UNCHANGED <<pipeVars>>
       ELSE IF Len(filesToSync) = 0
       THEN /\ stage' = "returned" /\ syncErr' = "nil"
            /\ UNCHANGED <<pipeVars>>
       ELSE /\ Stats' = [Stats EXCEPT !.TotalFiles = Len(filesToSync)]
            /\ tasks' = filesToSync
            /\ worker' = [w \in 1..NumWorkers(SyncConfig) |-> NewWorker]
            /\ syncPc' = "wait"
            /\ UNCHANGED <<stage, syncErr, workerCancelled>>
    /\ UNCHANGED <<cfgVars, appVars, sessions, envVars, ctxDone, status, filesToSync, indexVars, run>>

\* lines 912-925: wait for the workers or for ctx; `defer workerCancel()`
\* runs on return; lines 816-826: SyncWithContext returns nil.
SyncWait ==
    /\ syncPc = "wait"
    /\ \/ /\ AllWorkersExited
          /\ syncPc' = "returned"
          /\ workerCancelled' = TRUE
          /\ stage' = "returned" /\ syncErr' = "nil"
       \/ /\ ctxDone
          /\ syncPc' = "grace"
          /\ workerCancelled' = TRUE
          /\ UNCHANGED <<stage, syncErr>>
    /\ UNCHANGED <<cfgVars, appVars, sessions, envVars, ctxDone, status, filesToSync, indexVars,
                   tasks, worker, Stats, run>>

\* lines 926-932: the workers finish, or the 5 s timer fires; either way
\* ctx.Err() is returned, which SyncWithContext wraps (line 817).
SyncGrace ==
    /\ syncPc = "grace"
    /\ syncPc' = "returned"
    /\ stage' = "returned" /\ syncErr' = "SyncFilesError"
    /\ UNCHANGED <<cfgVars, appVars, sessions, envVars, ctxDone, status, filesToSync, indexVars,
                   tasks, worker, Stats, workerCancelled, run>>

\* runSync (native GUI, lines 489-501; web GUI, lines 519-531): the status
\* shown for the error SyncWithContext returned.
FinalStatus(err) ==
    IF err = "nil" THEN "Completed"
    ELSE IF err = "Canceled" THEN "Cancelled"
    ELSE "Failed"

RunSyncStatus ==
    /\ stage = "returned" /\ status = "Running..."
    /\ status' = FinalStatus(syncErr)
    /\ UNCHANGED <<cfgVars, appVars, sessions, envVars, ctxDone, stage, syncErr, filesToSync,
                   indexVars, pipeVars, run>>

-----------------------------------------------------------------------------
(* Web GUI: startHandler, stopHandler, runSync and its sync goroutine         *)

\* NewWebGUI (lines 70-76) and the zero values of the other fields.  ctx and
\* syncCtx are "nil", "live" or "done"; pc is the position of the runSync
\* goroutine; sync is the goroutine of line 496 ("none", "start" before its
\* check, "running" inside SyncWithContext, "finished"); done is the buffered
\* channel of line 495; timedOut: the 5 s timer of line 542 has fired in this
\* run; stale: a sync goroutine of an earlier run is still running; request,
\* response, seq: the last request handled, its answer, and a bit that flips
\* with every request; write: the message a call of LogWriter.Write has
\* passed through its filter and not yet handed to AddLog ("none": no call is
\* at that point).
\* w.syncProcess == nil
NoSyncProcess == [nil |-> TRUE]

NewWebGUI ==
    [isRunning |-> FALSE, status |-> "Ready", cancelled |-> FALSE, ctx |-> "nil",
     syncProcess |-> NoSyncProcess, syncCtx |-> "nil", logOutput |-> "original",
     pc |-> "none", sync |-> "none", done |-> "empty", timedOut |-> FALSE,
     stale |-> FALSE, request |-> "none", response |-> "none", seq |-> 0,
     write |-> "none"]

SyncGoroutineAlive(w) == w.sync \in {"start", "running"}

Answer(w, req, success) ==
    [w EXCEPT !.request = req, !.response = IF success THEN "accepted" ELSE "rejected",
              !.seq = 1 - @]

\* startHandler, lines 264-288, under w.mutex; `go w.runSync()` creates the
\* goroutine with its locals.
startHandler(w) ==
    IF w.isRunning
    THEN Answer(w, "start", FALSE)
    ELSE Answer([w EXCEPT !.isRunning = TRUE, !.cancelled = FALSE, !.ctx = "live",
                          !.status = "Starting...", !.pc = "start",
                          !.stale = @ \/ SyncGoroutineAlive(w),
                          !.sync = "none", !.done = "empty", !.timedOut = FALSE],
                "start", TRUE)

\* stopHandler, lines 290-321, under w.mutex.
stopHandler(w) ==
    IF ~w.isRunning
    THEN Answer(w, "stop", FALSE)
    ELSE Answer([w EXCEPT !.status = "Stopping...", !.cancelled = TRUE, !.ctx = "done",
                          !.syncCtx = IF w.syncProcess # NoSyncProcess THEN "done" ELSE @,
                          !.syncProcess = IF @ # NoSyncProcess THEN [cancelled |-> TRUE] ELSE @],
                "stop", TRUE)

StartRequest ==
    /\ webGui' = startHandler(webGui)
    /\ UNCHANGED <<engineVars, logs, added, configFile, environ, loaded>>

StopRequest ==
    /\ webGui' = stopHandler(webGui)
    /\ UNCHANGED <<engineVars, logs, added, configFile, environ, loaded>>

\* runSync, lines 435-436: SetStatus("Running...")
RunSyncBegin ==
    /\ webGui.pc = "start"
    /\ webGui' = [webGui EXCEPT !.status = "Running...", !.pc = "setup"]
    /\ UNCHANGED <<engineVars, logs, added, configFile, environ, loaded>>

\* lines 438-460: the sync context, w.syncProcess, log.SetOutput(logWriter)
RunSyncSetup ==
    /\ webGui.pc = "setup"
    /\ webGui' = [webGui EXCEPT !.syncCtx = "live", !.syncProcess = [cancelled |-> FALSE],
                                !.logOutput = "redirected", !.pc = "load"]
    /\ UNCHANGED <<engineVars, logs, added, configFile, environ, loaded>>

\* lines 462-515: LoadConfig and the validation return early with an error
\* status; otherwise the sync goroutine is started.
RunSyncLoad ==
    /\ webGui.pc = "load"
    /\ \/ webGui' = [webGui EXCEPT !.status = "Error - Check config", !.pc = "cleanup"]
       \/ webGui' = [webGui EXCEPT !.sync = "start", !.pc = "wait"]
    /\ UNCHANGED <<engineVars, logs, added, configFile, environ, loaded>>

\* lines 504-510: the sync goroutine's check before it calls SyncWithContext
SyncGoStart ==
    /\ webGui.sync = "start"
    /\ webGui' = IF webGui.syncCtx = "done"
                 THEN [webGui EXCEPT !.sync = "finished", !.done = "Canceled"]
                 ELSE [webGui EXCEPT !.sync = "running"]
    /\ UNCHANGED <<engineVars, logs, added, configFile, environ, loaded>>

\* what SyncWithContext (lines 760-827) can return under a context: nil, an
\* error (a recovered panic included, lines 498-502), and ctx.Err() itself
\* when the context is done
SyncResults(ctx) == {"nil", "error"} \cup (IF ctx = "done" THEN {"Canceled"} ELSE {})

\* lines 513-514: SyncWithContext returns, its error goes into `done`
SyncGoReturn ==
    /\ webGui.sync = "running"
    /\ \E err \in SyncResults(webGui.syncCtx) :
          webGui' = [webGui EXCEPT !.sync = "finished", !.done = err]
    /\ UNCHANGED <<engineVars, logs, added, configFile, environ, loaded>>

\* the sync goroutine of an earlier run returns
StaleReturn ==
    /\ webGui.stale
    /\ webGui' = [webGui EXCEPT !.stale = FALSE]
    /\ UNCHANGED <<engineVars, logs, added, configFile, environ, loaded>>

\* lines 517-548: the select over done, w.ctx.Done() and syncCtx.Done()
RunSyncWait ==
    /\ webGui.pc = "wait"
    /\ \/ /\ webGui.done # "empty"
          /\ webGui' = [webGui EXCEPT !.status = FinalStatus(webGui.done),
                                      !.done = "empty", !.pc = "cleanup"]
       \/ /\ webGui.ctx = "done"
          /\ webGui' = [webGui EXCEPT !.status = "Cancelled", !.syncCtx = "done",
                                      !.pc = "grace"]
       \/ /\ webGui.syncCtx = "done"
          /\ webGui' = [webGui EXCEPT !.status = "Cancelled", !.pc = "cleanup"]
    /\ UNCHANGED <<engineVars, logs, added, configFile, environ, loaded>>

\* RunSyncGrace without the case <-time.After(5 * time.Second) of line 542
RunSyncGrace_NoTimer ==
    /\ webGui.pc = "grace"
    /\ webGui.done # "empty"
    /\ webGui' = [webGui EXCEPT !.done = "empty", !.pc = "cleanup"]
    /\ UNCHANGED <<engineVars, logs, added, configFile, environ, loaded>>

\* lines 538-544: the sync goroutine's result, or the 5 s timer
RunSyncGrace ==
    /\ webGui.pc = "grace"
    /\ \/ /\ webGui.done # "empty"
          /\ webGui' = [webGui EXCEPT !.done = "empty", !.pc = "cleanup"]
       \/ webGui' = [webGui EXCEPT !.timedOut = TRUE, !.pc = "cleanup"]
    /\ UNCHANGED <<engineVars, logs, added, configFile, environ, loaded>>

\* cleanupSyncProcess, lines 560-576
cleanupSyncProcess(w) ==
    IF w.syncProcess = NoSyncProcess THEN w
    ELSE [w EXCEPT !.syncCtx = "done", !.logOutput = "original", !.syncProcess = NoSyncProcess]

\* lines 423-433 (after 550-557): the deferred function of runSync, under
\* w.mutex; the goroutine ends.
RunSyncCleanup ==
    /\ webGui.pc = "cleanup"
    /\ webGui' = [cleanupSyncProcess([webGui EXCEPT !.isRunning = FALSE]) EXCEPT !.pc = "none"]
    /\ UNCHANGED <<engineVars, logs, added, configFile, environ, loaded>>

\* strings.TrimSpace on the messages of the model
TrimSpace(msg) ==
    CASE msg = " " -> ""
      [] msg = " m " -> "m"
      [] OTHER -> msg

\* the capacity of the log, line 93
LogLimit == 500

\* AddLog keeping the oldest LogLimit entries instead of the newest
AddLog_KeepsOldest(l, msg, n) ==
    LET t == TrimSpace(msg)
        a == Append(l, [n |-> n, msg |-> t])
    IN IF t = "" THEN l
       ELSE IF Len(a) > LogLimit THEN SubSeq(a, 1, LogLimit) ELSE a

\* AddLog, lines 78-96: the log after AddLog(msg).  The entry is the message
\* with its time stamp; n, the rank of the entry among all entries ever
\* appended, stands for the time stamp.
AddLog(l, msg, n) ==
    LET t == TrimSpace(msg)
        a == Append(l, [n |-> n, msg |-> t])
    IN IF t = "" THEN l
       ELSE IF Len(a) > LogLimit THEN SubSeq(a, Len(a) - LogLimit + 1, Len(a)) ELSE a

Messages == {"", " ", "m", " m "}

\* a call of AddLog, under logsMutex
AddLogCall ==
    /\ added < MaxAdds
    /\ \E msg \in Messages :
          /\ logs' = AddLog(logs, msg, added + 1)
          /\ added' = IF TrimSpace(msg) = "" THEN added ELSE added + 1
    /\ UNCHANGED <<engineVars, webGui, configFile, environ, loaded>>

\* the messages with a pattern of lines 55-57 in them, among those of the model
TeardownMessages == {"connection lost", "failed to read directory d1", "Error scanning d1"}

\* strings.Contains(msg, ...) of lines 55-57 on the messages of the model
HasTeardownPattern(msg) == msg \in TeardownMessages

\* what the engine's goroutines print with the log package
LogMessages == TeardownMessages \cup {"m", " "}

MaxWrites == 2

\* LogWriter.Write, lines 49-62: a goroutine of the engine prints while the
\* log output is the LogWriter (the log package serializes the calls); the
\* message is trimmed and dropped when w.cancelled is set and it has a
\* pattern, or when it is empty.  w.cancelled is read without w.mutex.
LogWriterWrite ==
    /\ webGui.logOutput = "redirected"
    /\ webGui.sync = "running" \/ webGui.stale
    /\ webGui.write = "none"
    /\ added < MaxWrites
    /\ \E msg \in LogMessages :
          LET t == TrimSpace(msg) IN
          webGui' = IF (webGui.cancelled /\ HasTeardownPattern(t)) \/ t = ""
                    THEN webGui
                    ELSE [webGui EXCEPT !.write = t]
    /\ UNCHANGED <<engineVars, logs, added, configFile, environ, loaded>>

\* LogWriter.Write, lines 63-67: lw.webGui.AddLog(msg), under logsMutex
LogWriterAddLog ==
    /\ webGui.write # "none"
    /\ logs' = AddLog(logs, webGui.write, added + 1)
    /\ added' = added + 1
    /\ webGui' = [webGui EXCEPT !.write = "none"]
    /\ UNCHANGED <<engineVars, configFile, environ, loaded>>

WebNext ==
    \/ StartRequest
    \/ StopRequest
    \/ RunSyncBegin
    \/ RunSyncSetup
    \/ RunSyncLoad
    \/ SyncGoStart
    \/ SyncGoReturn
    \/ StaleReturn
    \/ RunSyncWait
    \/ RunSyncGrace
    \/ RunSyncCleanup

-----------------------------------------------------------------------------
(* Configuration loader: LoadConfig, loadFromEnv, ConvertToSyncConfig *)

\* the sync parameters with a documented default
Params == {"MaxConcurrentTransfers", "ChunkSize", "RetryAttempts", "RetryDelay",
           "VerifyTransfers", "DaysToSync"}

\* a field of the sync section of config.json: present with a value, or absent
AbsentField == [set |-> FALSE, val |-> 0]
FileFields(p) ==
    IF p = "VerifyTransfers"
    THEN {[set |-> FALSE, val |-> FALSE], [set |-> TRUE, val |-> FALSE]}
    ELSE {AbsentField, [set |-> TRUE, val |-> 1]}

\* an environment variable: its text ("" when it is not set)
EnvTexts(p) == IF p = "VerifyTransfers" THEN {"", "true", "x"} ELSE {"", "2", "x"}

\* the sync sections and the environments of the model
ConfigFiles ==
    [MaxConcurrentTransfers : FileFields("MaxConcurrentTransfers"),
     ChunkSize : FileFields("ChunkSize"),
     RetryAttempts : FileFields("RetryAttempts"),
     RetryDelay : FileFields("RetryDelay"),
     VerifyTransfers : FileFields("VerifyTransfers"),
     DaysToSync : FileFields("DaysToSync")]
Environs ==
    [MaxConcurrentTransfers : EnvTexts("MaxConcurrentTransfers"),
     ChunkSize : EnvTexts("ChunkSize"),
     RetryAttempts : EnvTexts("RetryAttempts"),
     RetryDelay : EnvTexts("RetryDelay"),
     VerifyTransfers : EnvTexts("VerifyTransfers"),
     DaysToSync : EnvTexts("DaysToSync")]

NoFields == [p \in Params |-> AbsentField]
NoEnviron == [p \in Params |-> ""]
NotLoaded == [none |-> TRUE]

\* config := &Config{} (line 1053): the zero value of a field
ZeroValue(p) == IF p = "VerifyTransfers" THEN FALSE ELSE 0

\* json.Unmarshal (line 1063) sets the fields the file has
Unmarshal(file, p) == IF file[p].set THEN file[p].val ELSE ZeroValue(p)

\* strconv.Atoi and strconv.ParseBool on the texts of the model
Parses(p, text) == IF p = "VerifyTransfers" THEN text = "true" ELSE text = "2"
Parsed(p, text) == IF p = "VerifyTransfers" THEN TRUE ELSE 2

\* loadFromEnv, lines 1138-1177: a variable that is set and parses overrides
loadFromEnv(v, env, p) ==
    IF env[p] # "" /\ Parses(p, env[p]) THEN Parsed(p, env[p]) ELSE v

\* LoadConfig, lines 1052-1076
LoadConfig(file, env) == [p \in Params |-> loadFromEnv(Unmarshal(file, p), env, p)]

\* ConvertToSyncConfig, lines 1196-1208: the fields are copied; RetryDelay
\* becomes a duration of that many seconds
ConvertToSyncConfig(c) == [c EXCEPT !["RetryDelay"] = [seconds |-> @]]

\* runSync: LoadConfig, then ConvertToSyncConfig
Load ==
    /\ loaded = NotLoaded
    /\ loaded' = ConvertToSyncConfig(LoadConfig(configFile, environ))
    /\ UNCHANGED <<engineVars, webGui, logs, added, configFile, environ>>

\* the application outside a run of the engine: a new WebGUI, nothing loaded
AppAtRest ==
    /\ webGui = NewWebGUI
    /\ logs = <<>>
    /\ added = 0
    /\ configFile = NoFields
    /\ environ = NoEnviron
    /\ loaded = NotLoaded

-----------------------------------------------------------------------------
(* Inputs *)

Configs(concs, chunks, retries, days, verifies, excludes) ==
    [MaxConcurrentTransfers : concs, ChunkSize : chunks, RetryAttempts : retries,
     DaysToSync : days, VerifyTransfers : verifies, ExcludePatterns : excludes]

P1 == Rel("d1", "a", 0)
P2 == Rel("d1", "a", 1)
P3 == Rel("d1/s", "b", 0)
P4 == Rel("d2", "c", 0)

SrcPaths == {P1, P2, P3, P4}
DstPaths ==
    LET ps == SrcPaths \cup {TempPath(p) : p \in SrcPaths}
    IN ps \cup {filepathRel("windows", p) : p \in ps}

ChunkValues == {1, 2}
Contents == UNION {[1..n -> ChunkValues] : n \in 0..MaxChunks}
Files == [data : Contents, mtime : Times]

\* the trees over `paths` with a file of `files` at each path of `present`
Tree(paths, present, f) == [p \in paths |-> IF p \in present THEN f[p] ELSE NoFile]

EmptyTree(paths) == [p \in paths |-> NoFile]

-----------------------------------------------------------------------------
(* Specifications *)

\* the engine as NewSFTPSync leaves it, before SyncWithContext is called
NewSFTPSync(cfgs, srcs, dsts, clocks) ==
    /\ SyncConfig \in cfgs
    /\ GOOS \in Platforms
    /\ sessions = NoSessions
    /\ srcFS \in srcs
    /\ dstFS \in dsts
    /\ destAtStart = dstFS
    /\ destClock \in clocks
    /\ ctxDone = FALSE
    /\ stage = "connect"
    /\ syncErr = "none"
    /\ status = "Running..."
    /\ idx = NoPass
    /\ scanner = <<>>
    /\ destGraph = NoGraph
    /\ sourceGraph = NoGraph
    /\ filesToSync = <<>>
    /\ tasks = <<>>
    /\ worker = <<>>
    /\ Stats = NewStats
    /\ syncPc = "idle"
    /\ workerCancelled = FALSE
    /\ run = FirstRun

\* the state in which runSync calls SyncWithContext
InitRun(cfgs, srcs, dsts, clocks) ==
    /\ NewSFTPSync(cfgs, srcs, dsts, clocks)
    /\ AppAtRest

PipelineNext ==
    \/ SyncStart
    \/ \E w \in DOMAIN worker : WorkerSelect(w)
    \/ \E w \in DOMAIN worker : WorkerCheck(w)
    \/ \E w \in DOMAIN worker : TransferMkdir(w)
    \/ \E w \in DOMAIN worker : TransferOpen(w)
    \/ \E w \in DOMAIN worker : TransferCreate(w)
    \/ \E w \in DOMAIN worker : TransferCopy(w)
    \/ \E w \in DOMAIN worker : TransferRename(w)
    \/ \E w \in DOMAIN worker : TransferChtimes(w)
    \/ \E w \in DOMAIN worker : WorkerRecord(w)
    \/ SyncWait
    \/ SyncGrace

RunNext ==
    \/ Cancel
    \/ Connect
    \/ StageCheck
    \/ BuildStart
    \/ MonitorCancel
    \/ \E b \in DOMAIN scanner : ScanAcquire(b)
    \/ \E b \in DOMAIN scanner : ScanDir(b)
    \/ BuildReturn
    \/ Compare
    \/ PipelineNext
    \/ RunSyncStatus

\* A run over a small pair of trees, for every configuration.
RunSrcTrees ==
    {Tree(SrcPaths, {P1, P4},
          [p \in SrcPaths |-> [data |-> <<>>, mtime |-> 1]])}

RunDstTrees == {EmptyTree(DstPaths)}

Init ==
    InitRun(Configs(-1..MaxConcurrent, {1}, 1..MaxRetryAttempts, 0..MaxDays, {TRUE}, {{}}),
            RunSrcTrees, RunDstTrees, {MaxTime})

Next == RunNext

Spec == Init /\ [][Next]_vars

-----------------------------------------------------------------------------
(* The transfer pipeline alone, from the state SyncWithContext is in when it  *)
(* calls syncFilesWithContext after two complete indexing passes.             *)

ScannedDirs(cfg) ==
    LET bs == {generateDateDirectories(cfg.DaysToSync)[i] :
                  i \in DOMAIN generateDateDirectories(cfg.DaysToSync)}
    IN bs \cup UNION {SubDirs(d) : d \in bs}

\* the graph an indexing pass returns when every ReadDir succeeds
FullSnapshot(cfg, client, fs) ==
    LET ps == {p \in DOMAIN fs : /\ fs[p] # NoFile
                                 /\ DirOf(p) \in ScannedDirs(cfg)
                                 /\ ~shouldExcludeFile(cfg, p)}
    IN [RootPath |-> client,
        Files |-> [k \in {<<client, p>> : p \in ps} |-> FileInfoOf(client, k[2], fs[k[2]])],
        Dirs |-> ScannedDirs(cfg)]

InitAfterCompare(cfgs, srcs, dsts, clocks) ==
    /\ SyncConfig \in cfgs
    /\ GOOS \in Platforms
    /\ sessions = ConnectResult("ok")
    /\ srcFS \in srcs
    /\ dstFS \in dsts
    /\ destAtStart = dstFS
    /\ AppAtRest
    /\ destClock \in clocks
    /\ ctxDone = FALSE
    /\ stage = "sync"
    /\ syncErr = "none"
    /\ status = "Running..."
    /\ idx = NoPass
    /\ scanner = <<>>
    /\ destGraph = FullSnapshot(SyncConfig, "dst", dstFS)
    /\ sourceGraph = FullSnapshot(SyncConfig, "src", srcFS)
    /\ filesToSync \in compareGraphs(sourceGraph, destGraph)
    /\ tasks = <<>>
    /\ worker = <<>>
    /\ Stats = [NewStats EXCEPT !.SkippedFiles = SkippedCount(sourceGraph, destGraph)]
    /\ syncPc = "idle"
    /\ workerCancelled = FALSE
    /\ run = FirstRun

\* Source: a (one chunk) and possibly a.tmp; destination: possibly an older a,
\* possibly an a.tmp.
TransferSrcTrees ==
    {Tree(SrcPaths, {P1} \cup x, [p \in SrcPaths |->
            IF p = P1 THEN [data |-> [i \in 1..MaxChunks |-> 1], mtime |-> MaxTime]
                      ELSE [data |-> <<>>, mtime |-> 1]]) : x \in SUBSET {P2}}

TransferDstTrees ==
    {Tree(DstPaths, x, [p \in DstPaths |-> [data |-> <<2>>, mtime |-> 1]]) :
        x \in SUBSET {P1, P2}}

InitTransfer ==
    InitAfterCompare(
        Configs(1..MaxConcurrent, {1}, (-1)..MaxRetryAttempts, {1}, BOOLEAN, {{}, {".tmp"}}),
        TransferSrcTrees, TransferDstTrees, {MaxTime})

NextTransfer ==
    \/ Cancel
    \/ PipelineNext
    \/ RunSyncStatus

SpecTransfer == InitTransfer /\ [][NextTransfer]_vars

-----------------------------------------------------------------------------
(* The comparator alone, on the snapshots of every pair of small trees.       *)

CompareSrcTrees ==
    {Tree(SrcPaths, DOMAIN f, f) : f \in UNION {[x -> Files] : x \in SUBSET {P1, P3}}}

CompareDstTrees ==
    {Tree(DstPaths, DOMAIN f, f) : f \in UNION {[x -> Files] : x \in SUBSET {P1, P4}}}

InitCompare ==
    /\ SyncConfig \in Configs({1}, {1}, {1}, {2}, {TRUE}, {{}})
    /\ GOOS \in Platforms
    /\ sessions = ConnectResult("ok")
    /\ srcFS \in CompareSrcTrees
    /\ dstFS \in CompareDstTrees
    /\ destAtStart = dstFS
    /\ AppAtRest
    /\ destClock = MaxTime
    /\ ctxDone = FALSE
    /\ stage = "compare"
    /\ syncErr = "none"
    /\ status = "Running..."
    /\ idx = NoPass
    /\ scanner = <<>>
    /\ destGraph = FullSnapshot(SyncConfig, "dst", dstFS)
    /\ sourceGraph = FullSnapshot(SyncConfig, "src", srcFS)
    /\ filesToSync = <<>>
    /\ tasks = <<>>
    /\ worker = <<>>
    /\ Stats = NewStats
    /\ syncPc = "idle"
    /\ workerCancelled = FALSE
    /\ run = FirstRun

NextCompare == Compare

SpecCompare == InitCompare /\ [][NextCompare]_vars

-----------------------------------------------------------------------------
(* Two runs in a row: a second run is started (a new SFTPSync, a new context) *)
(* after a first run that returned nil.                                       *)

\* every destination copy is at least as new as its source file
TimesKept ==
    \A p \in DOMAIN srcFS :
        LET q == filepathRel(GOOS, p) IN
        (srcFS[p] # NoFile /\ dstFS[q] # NoFile) => dstFS[q].mtime >= srcFS[p].mtime

\* runSync after a completed run: NewSFTPSync (lines 123-132) and
\* SyncWithContext on a fresh context; the trees are as the first run left them.
SecondRun ==
    /\ run.n = 1
    /\ stage = "returned" /\ syncErr = "nil" /\ status = "Completed"
    /\ run' = [n |-> 2, listFailed |-> FALSE,
               prev |-> [failed |-> Stats.FailedFiles,
                         transferred |-> Stats.TransferredFiles,
                         listFailed |-> run.listFailed,
                         cancelled |-> ctxDone,
                         timesKept |-> TimesKept]]
    /\ ctxDone' = FALSE
    /\ stage' = "connect"
    /\ syncErr' = "none"
    /\ status' = "Running..."
    /\ idx' = NoPass
    /\ scanner' = <<>>
    /\ destGraph' = NoGraph
    /\ sourceGraph' = NoGraph
    /\ filesToSync' = <<>>
    /\ tasks' = <<>>
    /\ worker' = <<>>
    /\ Stats' = NewStats
    /\ syncPc' = "idle"
    /\ workerCancelled' = FALSE
    /\ sessions' = NoSessions
    /\ UNCHANGED <<cfgVars, appVars, envVars>>

TwiceSrcTrees ==
    {Tree(SrcPaths, {P1} \cup x, [p \in SrcPaths |->
            IF p = P1 THEN [data |-> [i \in 1..MaxChunks |-> 1], mtime |-> MaxTime]
                      ELSE [data |-> <<>>, mtime |-> 1]]) : x \in SUBSET {P2}}

TwiceDstTrees == {EmptyTree(DstPaths)}

InitTwice ==
    InitRun(Configs({1}, {1}, {1}, {1}, {TRUE}, {{}, {".tmp"}}),
            TwiceSrcTrees, TwiceDstTrees, Times)

NextTwice == RunNext \/ SecondRun

SpecTwice == InitTwice /\ [][NextTwice]_vars

-----------------------------------------------------------------------------
(* Claims settled under Spec *)

InFlightJobs == {worker[w].file : w \in InFlight}

AtMost(n, bound) == n <= bound

C4_NoNewJobAfterCancel ==
    [][ctxDone => InFlightJobs' \subseteq InFlightJobs]_vars

\* C4 witness: the signal has fired, a worker had taken a job from the queue
\* and dropped it at the check before the file, and another job is still queued.
C4_Witness ==
    /\ ctxDone
    /\ tasks # <<>>
    /\ \E w \in DOMAIN worker : worker[w].pc = "exit" /\ worker[w].file # NoJob

\* the run ended because the cancellation signal fired: every error other
\* than the connection error is ctx.Err(), bare or wrapped.
EndedByCancel ==
    /\ stage = "returned"
    /\ syncErr \in {"Canceled", "BuildDestGraphError", "BuildSourceGraphError",
                    "SyncFilesError"}

\* C5: whenever a run ends because the cancellation signal fired, the outcome
\* shown by the presentation layer is Cancelled, never Failed.
C5_CancelShownAsCancelled ==
    EndedByCancel => status # "Failed"

-----------------------------------------------------------------------------
(* Claims settled under SpecTransfer *)

Max(a, b) == IF a > b THEN a ELSE b

\* transferFile has returned an error for the job of worker w
ReturnedError(w) == worker[w].pc = "record" /\ worker[w].res # "ok"

\* C1: a job is marked Failed only when every one of its attempts failed: no
\* job is Failed of which an attempt opened the source, created the temporary
\* object and copied to end-of-stream with no error in that attempt.
C1_FailedOnlyIfEveryAttemptFailed ==
    \A w \in DOMAIN worker : ReturnedError(w) => ~worker[w].abandoned

\* C2 as stated: a job whose transfer fails, whatever step fails (creating the
\* parent directory included), has been attempted exactly RetryAttempts times.
C2_AttemptedExactlyRetryAttempts ==
    \A w \in DOMAIN worker :
        ReturnedError(w) => worker[w].attempt = SyncConfig.RetryAttempts

\* C2 amended: a job whose every attempt fails runs exactly
\* max(RetryAttempts, 0) attempts, a job whose parent directory cannot be
\* created runs none, and recording either adds exactly 1 to FailedFiles and
\* nothing to TransferredFiles.
C2_BoundedRetries ==
    [][\A w \in DOMAIN worker :
          (ReturnedError(w) /\ worker'[w].pc # "record") =>
              /\ worker[w].res = "exhausted" =>
                    worker[w].attempt = Max(SyncConfig.RetryAttempts, 0)
              /\ worker[w].res = "mkdir" => worker[w].attempt = 0
              /\ Stats'.FailedFiles = Stats.FailedFiles + 1
              /\ Stats'.TransferredFiles = Stats.TransferredFiles]_vars

\* C2 witness: a job failed after two attempts and was counted once.
C2_Witness ==
    /\ SyncConfig.RetryAttempts = 2
    /\ Stats.FailedFiles = 1
    /\ \E w \in DOMAIN worker : ReturnedError(w) /\ worker[w].attempt = 2

\* C6: with VerifyTransfers, the object transferFile has just renamed to the
\* final path holds exactly the bytes read from the source.
C6_CommittedBytesEqualSource ==
    \A w \in DOMAIN worker :
        (/\ SyncConfig.VerifyTransfers
         /\ worker[w].pc = "chtimes"
         /\ dstFS[DestRel(worker[w])] # NoFile)
        => dstFS[DestRel(worker[w])].data = srcFS[worker[w].file.Path[2]].data

\* the final destination paths of the files of the source snapshot
FinalPaths == {sourceGraph.Files[k].RelativePath : k \in DOMAIN sourceGraph.Files}

Visible(fs, p) == IF fs[p] = NoFile THEN NoFile ELSE [data |-> fs[p].data]

\* C7: the content visible at a final destination path changes only at the
\* successful rename of a transfer attempt of that same file.
C7_FinalPathChangesOnlyAtRename ==
    [][\A p \in FinalPaths :
          Visible(dstFS', p) # Visible(dstFS, p) =>
              \E w \in DOMAIN worker :
                  /\ worker[w].pc = "rename" /\ worker'[w].pc = "chtimes"
                  /\ DestRel(worker[w]) = p]_vars

-----------------------------------------------------------------------------
(* Claims settled under SpecCompare *)

WorkList == {filesToSync[i] : i \in DOMAIN filesToSync}

SourceFiles == {sourceGraph.Files[k] : k \in DOMAIN sourceGraph.Files}

\* the path of a snapshot's file below the root of its snapshot
BelowRoot(f) == f.Path[2]

DestFiles == {destGraph.Files[k] : k \in DOMAIN destGraph.Files}

\* the destination snapshot's records at the root-relative path of f
DestRecords(f) == {d \in DestFiles : BelowRoot(d) = BelowRoot(f)}

\* C8: compareGraphs puts into the work list every source file that has no
\* destination record at the same root-relative path, and never a file that
\* is only in the destination snapshot.
C8_DiffCorrectness ==
    stage = "sync" =>
        /\ \A f \in SourceFiles : DestRecords(f) = {} => f \in WorkList
        /\ WorkList \subseteq SourceFiles
        /\ WorkList \cap DestFiles = {}

\* C8 witness: compared snapshots with a source-only file, which is queued,
\* and a destination-only file.
C8_Witness ==
    /\ stage = "sync"
    /\ \E f \in WorkList : DestRecords(f) = {}
    /\ \E d \in DestFiles : \A f \in SourceFiles : BelowRoot(f) # BelowRoot(d)

\* C9: a file present in both snapshots at the same relative path is queued
\* if and only if the source size differs or the source modification time is
\* strictly later; otherwise it is not queued and SkippedFiles counts it
\* exactly once.
C9_ChangeDetection ==
    stage = "sync" =>
        /\ \A f \in SourceFiles : \A d \in DestRecords(f) :
              f \in WorkList <=> (f.Size # d.Size \/ f.ModTime > d.ModTime)
        /\ Stats.SkippedFiles =
              Cardinality({f \in SourceFiles : DestRecords(f) # {} /\ f \notin WorkList})

-----------------------------------------------------------------------------
(* Claims settled under SpecTwice *)

\* no source file's temporary path is the final path of another source file
NoTmpCollision == \A p \in FinalPaths, q \in FinalPaths : TempPath(p) # q

\* The second run has returned nil; the first run had recorded no failed job
\* and was not cancelled; every ReadDir of both runs succeeded; the first run
\* left no destination copy older than its source file; no temporary path is
\* a final path.
SecondRunCompleted ==
    /\ run.n = 2
    /\ stage = "returned" /\ syncErr = "nil"
    /\ run.prev.failed = 0
    /\ ~run.prev.cancelled
    /\ ~run.prev.listFailed /\ ~run.listFailed
    /\ run.prev.timesKept
    /\ NoTmpCollision

\* C10 as stated: the second of two runs in a row over an unchanged source
\* tree, the first having completed with no failed job, transfers zero files
\* and ends with SkippedFiles equal to TotalFiles.
C10_SkippedEqualsTotal ==
    SecondRunCompleted =>
        /\ Stats.TransferredFiles = 0
        /\ Stats.SkippedFiles = Stats.TotalFiles

-----------------------------------------------------------------------------
(* Statistics of a completed run, under SpecTransfer *)

\* the worker w records the result of its job in this step
Records(w) == worker[w].pc = "record" /\ worker'[w].pc # "record"

\* C11: when a run reaches Completed, TransferredFiles + FailedFiles equals
\* the length of the work list (TotalFiles), and TotalBytes is the sum of the
\* source sizes of exactly the jobs that succeeded: each succeeded job adds
\* its size once, and nothing else changes TotalBytes.
C11_CompletedStatsAddUp ==
    [][/\ status' = "Completed" =>
             /\ Stats'.TransferredFiles + Stats'.FailedFiles = Len(filesToSync')
             /\ Stats'.TotalFiles = Len(filesToSync')
       /\ \A w \in DOMAIN worker : Records(w) =>
             Stats'.TotalBytes = Stats.TotalBytes +
                 (IF worker[w].res = "ok"
                  THEN FileSize(srcFS[worker[w].file.Path[2]]) ELSE 0)
       /\ ((\A w \in DOMAIN worker : ~Records(w)) => Stats'.TotalBytes = Stats.TotalBytes)]_vars

-----------------------------------------------------------------------------
(* Order of the job queue, under SpecTransfer *)

\* the last n elements of the sequence q
Suffix(q, n) == SubSeq(q, Len(q) - n + 1, Len(q))

\* C12: the work list is in non-decreasing order of size, and the workers
\* take the jobs from the queue in exactly that order: the queue is always
\* what is left of the work list behind the jobs already taken, and a step
\* that takes a job takes the first one of the queue.
C12_QueueConsumedInSizeOrder ==
    [][/\ \A i, j \in DOMAIN filesToSync' :
             i < j => filesToSync'[i].Size <= filesToSync'[j].Size
       /\ syncPc' # "idle" =>
             /\ Len(tasks') <= Len(filesToSync')
             /\ tasks' = Suffix(filesToSync', Len(tasks'))
       /\ (syncPc # "idle" /\ tasks' # tasks) =>
             /\ tasks' = Tail(tasks)
             /\ \E w \in DOMAIN worker :
                   worker[w].pc = "select" /\ worker'[w].file = Head(tasks)]_vars

\* C12 witness: a work list of a smaller and a larger file, both taken from
\* the queue, the larger one last.
C12_Witness ==
    /\ Len(filesToSync) = 2
    /\ filesToSync[1].Size < filesToSync[2].Size
    /\ tasks = <<>>
    /\ \E w \in DOMAIN worker :
          worker[w].pc \in TransferPcs /\ worker[w].file = filesToSync[2]

-----------------------------------------------------------------------------
(* Listing failures during indexing, under Spec *)

\* the indexing pass returns its graph to SyncWithContext in this step, and
\* the cancellation signal has not fired (a cancelled pass leaves buckets out
\* for that reason, not for a failed listing)
PassReturnsGraph ==
    idx.client # "none" /\ stage' \in {"checkB", "checkC"} /\ ~ctxDone

\* the date directories the pass was started for
Buckets ==
    {generateDateDirectories(SyncConfig.DaysToSync)[i] :
        i \in DOMAIN generateDateDirectories(SyncConfig.DaysToSync)}

\* C13: a failed directory listing makes the indexer abandon only that
\* subtree.  When a pass that was not cancelled returns its graph (it returns
\* no error then), every
\* bucket and every subdirectory of a listed directory was either listed or
\* is one whose own listing failed, and the graph holds exactly the
\* non-excluded files of the listed directories.
C13_ListingFailureAbandonsOnlySubtree ==
    [][PassReturnsGraph =>
          LET g == idx.graph
              fs == FSOf(idx.client)
          IN /\ syncErr' = "none"
             /\ g.Dirs \cap idx.failed = {}
             /\ \A b \in Buckets : b \in g.Dirs \cup idx.failed
             /\ \A d \in g.Dirs : SubDirs(d) \subseteq g.Dirs \cup idx.failed
             /\ DOMAIN g.Files =
                   {<<idx.client, p>> : p \in {q \in DOMAIN fs :
                        /\ fs[q] # NoFile
                        /\ DirOf(q) \in g.Dirs
                        /\ ~shouldExcludeFile(SyncConfig, q)}}
             /\ \A k \in DOMAIN g.Files :
                   g.Files[k] = FileInfoOf(idx.client, k[2], fs[k[2]])]_vars

\* C13 witness: the source pass has returned a graph; the listing of bucket d1,
\* which holds a file, had failed, and the file of bucket d2 is in the graph.
C13_Witness ==
    /\ stage = "checkC" /\ ~ctxDone
    /\ srcFS[P1] # NoFile
    /\ "d1" \notin sourceGraph.Dirs
    /\ <<"src", P4>> \in DOMAIN sourceGraph.Files

-----------------------------------------------------------------------------
(* A run under fair scheduling: the goroutine of SyncWithContext and the      *)
(* goroutines it starts each take a step when one stays possible; every       *)
(* remote operation returns.  Nobody is obliged to press Stop.  The           *)
(* parameters are those ConvertToSyncConfig (lines 1196-1208) copies from the *)
(* loaded file unchecked: zero when the field is absent, any integer else.    *)

LoadedValues == {-1, 0, 1}

CoordinatorNext ==
    \/ Connect
    \/ StageCheck
    \/ BuildStart
    \/ BuildReturn
    \/ Compare
    \/ SyncStart
    \/ SyncWait
    \/ SyncGrace
    \/ RunSyncStatus

ScannerNext(b) == ScanAcquire(b) \/ ScanDir(b)

WorkerNext(w) ==
    \/ WorkerSelect(w)
    \/ WorkerCheck(w)
    \/ TransferMkdir(w)
    \/ TransferOpen(w)
    \/ TransferCreate(w)
    \/ TransferCopy(w)
    \/ TransferRename(w)
    \/ TransferChtimes(w)
    \/ WorkerRecord(w)

Fairness ==
    /\ WF_vars(CoordinatorNext)
    /\ WF_vars(MonitorCancel)
    /\ \A b \in 1..Len(AllBuckets) : WF_vars(b \in DOMAIN scanner /\ ScannerNext(b))
    /\ \A w \in 1..(MaxConcurrent + 1) : WF_vars(w \in DOMAIN worker /\ WorkerNext(w))

LiveSrcTrees ==
    {Tree(SrcPaths, {P1}, [p \in SrcPaths |-> [data |-> <<1>>, mtime |-> 1]])}

InitLive ==
    InitRun(Configs(LoadedValues, LoadedValues, LoadedValues, LoadedValues, {TRUE}, {{}}),
            LiveSrcTrees, {EmptyTree(DstPaths)}, {MaxTime})

SpecLive == InitLive /\ [][Next]_vars /\ Fairness

Established == stage # "connect" /\ syncErr # "ConnectError"

JobsAccounted == Stats.TransferredFiles + Stats.FailedFiles = Len(filesToSync)

\* C14: a run that is never cancelled and whose sessions were established
\* eventually has every job of the work list counted as transferred or failed
\* and ends Completed; a run that was not cancelled ends Failed only on a
\* connection error.
C14_UncancelledRunCompletes ==
    /\ <>(ctxDone \/ syncErr = "ConnectError" \/ (status = "Completed" /\ JobsAccounted))
    /\ []((status = "Failed" /\ ~ctxDone) => syncErr = "ConnectError")

Outcomes == {"Completed", "Cancelled", "Failed"}

\* C15: for every parameter set the loader can hand over and every remote
\* behaviour in which each operation returns, the run eventually ends with an
\* outcome among Completed, Cancelled and Failed, and the outcome, once
\* shown, does not change.
C15_RunTerminatesWithOneOutcome ==
    /\ <>(status \in Outcomes)
    /\ [][(status \in Outcomes) => (status' = status)]_vars

-----------------------------------------------------------------------------
(* Connection failure, under Spec *)

\* lines 764 and 217-230: the deferred Close ends both sessions when
\* SyncWithContext returns (or unwinds); a dead process has no session.
SessionOpen(e) ==
    sessions[e] = "open" /\ stage \notin {"returned", "panicked", "crashed"}

\* C16: when Connect fails for either endpoint the run ends Failed before any
\* stage starts: no indexing pass has run, no directory was listed, no worker
\* was started, nothing was counted and the destination is untouched; neither
\* session is open, and a source session that had been established before the
\* destination failed is closed.
C16_ConnectFailureEndsRunBeforeAnyStage ==
    syncErr = "ConnectError" =>
        /\ stage = "returned"
        /\ status = "Failed" \/ (status = "Running..." /\ ENABLED RunSyncStatus
                                  /\ FinalStatus(syncErr) = "Failed")
        /\ idx = NoPass /\ scanner = <<>>
        /\ destGraph = NoGraph /\ sourceGraph = NoGraph /\ ~run.listFailed
        /\ filesToSync = <<>> /\ tasks = <<>> /\ worker = <<>> /\ syncPc = "idle"
        /\ Stats = NewStats
        /\ dstFS = destAtStart
        /\ sessions \in {NoSessions, [src |-> "closed", dst |-> "none"]}
        /\ ~SessionOpen("src") /\ ~SessionOpen("dst")

C16_Witness ==
    /\ syncErr = "ConnectError"
    /\ status = "Failed"
    /\ sessions = [src |-> "closed", dst |-> "none"]

-----------------------------------------------------------------------------
(* Files that exist only at the destination, under SpecTransfer *)

\* the destination path transferFile gives the source file at p (line 643,
\* from the RelativePath of line 419)
MapsTo(p) == filepathRel(GOOS, p)

\* an object the destination had when the run started and that no source
\* file maps to
DestOnly(q) ==
    /\ destAtStart[q] # NoFile
    /\ \A p \in DOMAIN srcFS : srcFS[p] # NoFile => MapsTo(p) # q

\* C17: a file that exists only at the destination is never deleted,
\* truncated, overwritten or renamed by a run: it is still there with the
\* content and the modification time it had.
C17_DestOnlyFilesUntouched ==
    \A q \in DOMAIN dstFS : DestOnly(q) => dstFS[q] = destAtStart[q]

-----------------------------------------------------------------------------
(* Cancellation inside a job, under SpecTransfer *)

\* the positions of a worker inside the retry loop of transferFile
RetryLoopPcs == {"open", "create", "copy", "rename"}

\* the worker w goes round the retry loop: its next attempt begins
StartsNewAttempt(w) ==
    /\ worker[w].pc \in RetryLoopPcs
    /\ w \in DOMAIN worker'
    /\ worker'[w].pc = "open"
    /\ worker'[w].attempt > worker[w].attempt

\* C18: once the run's context is cancelled, no worker inside the retry loop
\* of its job begins a further attempt.
C18_NoNewAttemptAfterCancel ==
    [][ctxDone => \A w \in DOMAIN worker : ~StartsNewAttempt(w)]_vars

-----------------------------------------------------------------------------
(* Cancellation during indexing, under Spec *)

\* the bucket goroutine b calls ReadDir in this step: it takes its semaphore
\* slot and lists its bucket, or it has finished one listing and descends
\* into the next directory
IssuesListing(b) ==
    /\ b \in DOMAIN scanner'
    /\ scanner'[b].pc = "scan"
    /\ scanner'[b] # scanner[b]

\* C19: once the run's context is cancelled, no bucket goroutine that has not
\* begun scanning begins, and no further directory listing is issued; the
\* listings in flight may complete.
C19_NoNewListingAfterCancel ==
    [][ctxDone => \A b \in DOMAIN scanner : ~IssuesListing(b)]_vars

-----------------------------------------------------------------------------
(* Shutdown of the pipeline.  Only the goroutine of syncFilesWithContext is   *)
(* scheduled fairly (its select fires when a case is ready, its timer fires   *)
(* after 5 s); a worker may stay in a remote operation for ever.              *)

SyncFilesNext == SyncStart \/ SyncWait \/ SyncGrace

ShutdownSrcTrees ==
    {Tree(SrcPaths, {P1}, [p \in SrcPaths |-> [data |-> <<1>>, mtime |-> MaxTime]])}

InitShutdown ==
    InitAfterCompare(Configs(1..MaxConcurrent, {1}, 1..MaxRetryAttempts, {1}, {TRUE}, {{}}),
                     ShutdownSrcTrees, {EmptyTree(DstPaths)}, {MaxTime})

SpecShutdown == InitShutdown /\ [][NextTransfer]_vars /\ WF_vars(SyncFilesNext)

CancelledWhileRunning == ctxDone /\ syncPc = "wait"

ReturnedCancellationError == syncPc = "returned" /\ syncErr = "SyncFilesError"

\* C20: when the run's context is cancelled while the pipeline is running,
\* syncFilesWithContext eventually returns a cancellation error, whether or
\* not every worker finishes.
C20_CancelledPipelineReturnsCancellation ==
    CancelledWhileRunning ~> ReturnedCancellationError

-----------------------------------------------------------------------------
(* The statistics after the run has returned, under SpecTransfer *)

\* SyncWithContext has returned to runSync
RunReturned == stage = "returned"

\* C21: once the run has returned its outcome to the caller, no counter of
\* Stats changes any more.
C21_StatsFrozenAfterReturn ==
    [][(RunReturned /\ stage' = "returned") => (Stats' = Stats)]_vars

-----------------------------------------------------------------------------
(* Order of the stages of one run, under Spec *)

WorkListComplete == filesToSync \in compareGraphs(sourceGraph, destGraph)

\* C22: the stages of a run follow each other in the order destination
\* indexing, source indexing, comparison, transfer, and do not overlap: the
\* source is not indexed before the destination snapshot exists, no listing
\* is in progress while the comparator runs or while files are transferred,
\* and no worker exists before the comparison has produced the whole work list.
C22_StagesInOrderWithoutOverlap ==
    /\ stage \in {"connect", "checkA", "buildDest"} =>
          /\ destGraph = NoGraph /\ sourceGraph = NoGraph
          /\ idx.client \in {"none", "dst"}
          /\ filesToSync = <<>> /\ worker = <<>> /\ syncPc = "idle"
    /\ stage \in {"checkB", "buildSource"} =>
          /\ destGraph # NoGraph /\ sourceGraph = NoGraph
          /\ idx.client \in {"none", "src"}
          /\ filesToSync = <<>> /\ worker = <<>> /\ syncPc = "idle"
    /\ stage \in {"checkC", "compare"} =>
          /\ destGraph # NoGraph /\ sourceGraph # NoGraph
          /\ idx = NoPass /\ scanner = <<>>
          /\ filesToSync = <<>> /\ worker = <<>> /\ syncPc = "idle"
    /\ stage = "sync" =>
          /\ destGraph # NoGraph /\ sourceGraph # NoGraph
          /\ idx = NoPass /\ scanner = <<>>
          /\ WorkListComplete
    /\ worker # <<>> =>
          /\ stage \in {"sync", "returned", "crashed"}
          /\ WorkListComplete
          /\ \A b \in DOMAIN scanner : scanner[b].pc = "done"

C22_Witness ==
    /\ stage = "sync"
    /\ InFlight # {}
    /\ Len(filesToSync) = 2

-----------------------------------------------------------------------------
(* Cancellation at the stage transitions, under Spec *)

\* the goroutine of SyncWithContext is between two stages: at one of its own
\* checks, or at the check on entry of the stage it has just called
AtStageTransition ==
    \/ stage \in {"checkA", "checkB", "checkC"}
    \/ stage \in {"buildDest", "buildSource"} /\ idx.client = "none"
    \/ stage = "sync" /\ syncPc = "idle"

CoordinatorMoves == stage' # stage \/ idx'.client # idx.client \/ syncPc' # syncPc

\* C23: when the context is already cancelled at a stage transition, the
\* coordinator returns there with a cancellation outcome and starts no
\* further stage; once the context is cancelled, a source indexing pass that
\* has not started never starts and workers that have not been started never
\* are.
C23_CancelAtTransitionEndsRunCancelled ==
    [][ctxDone =>
          /\ (AtStageTransition /\ CoordinatorMoves) =>
                /\ stage' = "returned"
                /\ FinalStatus(syncErr') = "Cancelled"
                /\ idx' = idx /\ scanner' = scanner /\ worker' = worker
          /\ idx.client # "src" => idx'.client # "src"
          /\ worker = <<>> => worker' = <<>>]_vars

-----------------------------------------------------------------------------
(* The web GUI alone: requests in any order, runs that end in every way.  No  *)
(* engine step is taken; SyncResults stands for the run of the engine.        *)

\* the engine before any run, with nothing at either endpoint
EngineAtRest ==
    /\ InitRun(Configs({1}, {1}, {1}, {1}, {TRUE}, {{}}),
               {EmptyTree(SrcPaths)}, {EmptyTree(DstPaths)}, {MaxTime})
    /\ GOOS = "linux"

InitWeb == EngineAtRest

SpecWeb == InitWeb /\ [][WebNext]_vars

RequestHandled == webGui'.seq # webGui.seq

Accepted(req) == webGui'.request = req /\ webGui'.response = "accepted"

\* the fields a request can act on
Controls(w) == <<w.isRunning, w.status, w.cancelled, w.ctx, w.syncCtx, w.syncProcess>>

\* C24: a start request is accepted only when no sync is running and a stop
\* request only when one is; a rejected request changes none of isRunning,
\* status, cancelled and the contexts; when a start is accepted, the sync of
\* every earlier accepted start has ended.
C24_RequestsGuardedByRunning ==
    [][RequestHandled =>
          /\ Accepted("start") <=> (webGui'.request = "start" /\ ~webGui.isRunning)
          /\ Accepted("stop") <=> (webGui'.request = "stop" /\ webGui.isRunning)
          /\ webGui'.response = "rejected" => Controls(webGui') = Controls(webGui)
          /\ Accepted("start") =>
                /\ webGui.pc = "none"
                /\ ~SyncGoroutineAlive(webGui) /\ ~webGui.stale]_vars

-----------------------------------------------------------------------------
(* The log of the web GUI alone: any sequence of AddLog calls *)

SpecLog == EngineAtRest /\ [][AddLogCall]_vars

\* C25: after every sequence of AddLog calls the log holds at most LogLimit
\* entries, none of them empty, and they are the entries appended most
\* recently, in the order in which they were appended.
C25_LogKeepsNewestEntries ==
    /\ Len(logs) <= LogLimit
    /\ Len(logs) = (IF added < LogLimit THEN added ELSE LogLimit)
    /\ \A i \in 1..Len(logs) :
          /\ logs[i].n = added - Len(logs) + i
          /\ logs[i].msg # ""

C25_Witness == added > LogLimit /\ Len(logs) = LogLimit /\ logs[1].n = added - LogLimit + 1

-----------------------------------------------------------------------------
(* Cleanup of a web-GUI run, under SpecWeb *)

LogRestored == webGui.logOutput = "redirected" /\ webGui'.logOutput = "original"

MarkedNotRunning == webGui.isRunning /\ ~webGui'.isRunning

\* C26: when the log output is restored the sync context has been cancelled
\* and the sync goroutine has been waited for: it has finished, or the wait
\* has timed out; and the process is marked not running only with the
\* original log output back.
C26_CleanupOrder ==
    [][/\ LogRestored =>
             /\ webGui'.syncCtx = "done"
             /\ ~SyncGoroutineAlive(webGui) \/ webGui.timedOut
       /\ MarkedNotRunning => webGui'.logOutput = "original"]_vars

-----------------------------------------------------------------------------
(* The loader alone, on every small configuration file and environment *)

\* the engine before any run, for the loader's inputs
InitLoad ==
    /\ NewSFTPSync(Configs({1}, {1}, {1}, {1}, {TRUE}, {{}}),
                   {EmptyTree(SrcPaths)}, {EmptyTree(DstPaths)}, {MaxTime})
    /\ GOOS = "linux"
    /\ webGui = NewWebGUI
    /\ logs = <<>>
    /\ added = 0
    /\ configFile \in ConfigFiles
    /\ environ \in Environs
    /\ loaded = NotLoaded

SpecLoad == InitLoad /\ [][Load]_vars

\* the defaults of CONFIG.md, lines 88-100
DocumentedDefaults ==
    [MaxConcurrentTransfers |-> 10, ChunkSize |-> 65536, RetryAttempts |-> 3,
     RetryDelay |-> [seconds |-> 5], VerifyTransfers |-> TRUE, DaysToSync |-> 5]

NotSet(p) == ~configFile[p].set /\ environ[p] = ""

\* C27: a sync parameter set neither in the JSON file nor in the environment
\* has its documented default in the configuration the engine gets.
C27_UnsetParameterGetsDefault ==
    loaded # NotLoaded =>
        \A p \in Params : NotSet(p) => loaded[p] = DocumentedDefaults[p]

-----------------------------------------------------------------------------
(* Temporary objects of attempts that end without a rename *)

\* worker w ends an attempt after Create without a successful rename: from the
\* copy loop or from the rename, back to the head of the retry loop
EndsAttemptUnrenamed(w) ==
    /\ worker[w].pc \in {"copy", "rename"}
    /\ w \in DOMAIN worker'
    /\ worker'[w].attempt = worker[w].attempt + 1

\* C28: whenever a transfer attempt ends without a successful rename, the
\* temporary object of the job is gone from the destination, so a job that
\* ends Failed leaves no temporary object behind.
C28_UnrenamedAttemptRemovesTemp ==
    [][\A w \in DOMAIN worker :
          EndsAttemptUnrenamed(w) => (dstFS'[TempRel(worker[w])] = NoFile)]_vars

-----------------------------------------------------------------------------
(* Files of a snapshot and its scanned directories *)

ParentsRecorded(g) ==
    g = NoGraph \/ \A k \in DOMAIN g.Files : DirOf(k[2]) \in g.Dirs

\* C29: during and after indexing, every file recorded in a snapshot has its
\* parent directory in the snapshot's set of scanned directories.
C29_FilesHaveParentDirectory ==
    /\ ParentsRecorded(idx.graph)
    /\ ParentsRecorded(destGraph)
    /\ ParentsRecorded(sourceGraph)

\* the source pass has recorded a file while one of its scanners is still at
\* work, after the destination snapshot was returned
C29_Witness ==
    /\ idx.client = "src"
    /\ DOMAIN idx.graph.Files # {}
    /\ \E b \in DOMAIN scanner : scanner[b].pc = "scan"
    /\ destGraph # NoGraph

-----------------------------------------------------------------------------
(* A snapshot is returned once, complete, and read-only from then on *)

\* an indexing pass hands its graph to SyncWithContext in this step
SnapshotReturned ==
    \/ destGraph = NoGraph /\ destGraph' # NoGraph
    \/ sourceGraph = NoGraph /\ sourceGraph' # NoGraph

\* a scanner goroutine of the current pass has not returned yet
ScannerActive == \E b \in DOMAIN scanner : scanner[b].pc # "done"

\* g is the same snapshot after the step (or the run's graphs were dropped)
KeptAsReturned(g, h) == g # NoGraph /\ h # NoGraph => h = g

\* C30: a snapshot is returned only when every scanner task of its pass has
\* finished, and from then on it is never written: not by a scanner, and not
\* while compareGraphs reads it.
C30_SnapshotCompleteAndReadOnly ==
    [][/\ SnapshotReturned =>
             /\ ~ScannerActive
             /\ scanner' = <<>>
             /\ idx.graph \in {destGraph', sourceGraph'}
       /\ KeptAsReturned(destGraph, destGraph')
       /\ KeptAsReturned(sourceGraph, sourceGraph')]_vars

\* both snapshots are returned, the source one with a file in it, and
\* compareGraphs is about to read them
C30_Witness ==
    /\ stage = "compare"
    /\ destGraph # NoGraph
    /\ sourceGraph # NoGraph
    /\ DOMAIN sourceGraph.Files # {}

-----------------------------------------------------------------------------
(* The semaphore of an indexing pass *)

\* C31: during an indexing pass, the number of bucket goroutines that hold a
\* semaphore slot inside scanDirectory never exceeds MaxConcurrentTransfers,
\* however many buckets there are.
C31_ScannersBoundedBySemaphore ==
    idx.client # "none" => Held <= SyncConfig.MaxConcurrentTransfers

\* every slot is taken by a scanning bucket while another bucket waits
C31_Witness ==
    /\ idx.client # "none"
    /\ Held = SyncConfig.MaxConcurrentTransfers
    /\ Held >= 1
    /\ \E b \in DOMAIN scanner : scanner[b].pc = "wait"
    /\ Cardinality(DOMAIN scanner) > SyncConfig.MaxConcurrentTransfers

-----------------------------------------------------------------------------
(* Ownership of the jobs of the work list *)

\* the workers that hold a job: received from tasks and not yet recorded
Holders == {w \in DOMAIN worker : worker[w].file # NoJob}

\* every job is in one place: queued once, or held by one worker
JobsOwnedOnce ==
    /\ \A i, j \in DOMAIN tasks : i # j => tasks[i] # tasks[j]
    /\ \A w \in Holders : \A i \in DOMAIN tasks : tasks[i] # worker[w].file
    /\ \A v, w \in Holders : v # w => worker[v].file # worker[w].file

\* C32: each job of the work list is taken from the queue by at most one
\* worker and never put back, so transferFile is called at most once per job
\* in a run and no two workers process the same job at the same time.
C32_JobOwnedByOneWorker ==
    [][/\ JobsOwnedOnce'
       /\ (tasks' # tasks /\ run'.n = run.n) =>
             (syncPc = "idle" \/ tasks' = Tail(tasks))
       /\ \A w \in DOMAIN worker :
             (w \in Holders /\ w \in DOMAIN worker' /\ worker'[w].file # worker[w].file)
                => worker'[w].file = NoJob]_vars

\* two workers are inside transferFile at once, each with its own job
C32_Witness ==
    \E v, w \in InFlight : v # w /\ worker[v].file # worker[w].file

-----------------------------------------------------------------------------
(* The counters of the transfer pipeline *)

Counted == Stats.TransferredFiles + Stats.FailedFiles

\* the jobs of the work list whose transferFile call returned and whose result
\* was recorded: neither queued nor in a worker's hands
Recorded == Len(filesToSync) - Len(tasks) - Cardinality(Holders)

\* C33: under every interleaving of the workers, TransferredFiles +
\* FailedFiles is the number of jobs whose result was recorded, a finished job
\* adds one to exactly one of the two counters, and the sum never exceeds
\* TotalFiles.
C33_NoLostStatisticsUpdate ==
    [][/\ syncPc' # "idle" => (Counted' = Recorded' /\ Counted' <= Stats'.TotalFiles)
       /\ \A w \in DOMAIN worker : Records(w) =>
             /\ Counted' = Counted + 1
             /\ Stats'.TransferredFiles >= Stats.TransferredFiles
             /\ Stats'.FailedFiles >= Stats.FailedFiles
             /\ (worker[w].res = "ok") = (Stats'.TransferredFiles > Stats.TransferredFiles)]_vars

\* one job was recorded as transferred and one as failed, by two workers
C33_Witness ==
    /\ Cardinality(DOMAIN worker) >= 2
    /\ Stats.TransferredFiles = 1
    /\ Stats.FailedFiles = 1
    /\ Stats.TotalFiles = 2

-----------------------------------------------------------------------------
(* compareGraphs partitions the source snapshot *)

\* compareGraphs runs in this step
Compares == stage = "compare" /\ stage' = "sync"

\* C34: compareGraphs classifies every file of the source snapshot exactly
\* once: the work list holds source files only and none twice, and its length
\* plus the increase of SkippedFiles is the number of source files.
C34_EverySourceFileClassifiedOnce ==
    [][Compares =>
          /\ \A i, j \in DOMAIN filesToSync' : i # j => filesToSync'[i] # filesToSync'[j]
          /\ \A i \in DOMAIN filesToSync' : filesToSync'[i] \in SourceFiles
          /\ Len(filesToSync') + (Stats'.SkippedFiles - Stats.SkippedFiles)
                = Cardinality(DOMAIN sourceGraph.Files)]_vars

\* compareGraphs has run on a snapshot of which it appended one file and
\* skipped another
C34_Witness ==
    /\ stage = "sync"
    /\ Len(filesToSync) >= 1
    /\ Stats.SkippedFiles >= 1
    /\ Cardinality(DOMAIN sourceGraph.Files) >= 2

-----------------------------------------------------------------------------
(* Jobs dropped on cancellation *)

\* the positions of a worker that is not inside transferFile and has no
\* result to record: before the receive, between the receive and the check of
\* lines 889-894, and after its return
OutsideTransfer == {"select", "check", "exit"}

\* a job received from the queue and dropped because the worker saw the signal
Dropped(w) == worker[w].pc = "exit" /\ worker[w].file # NoJob

\* C35: cancellation is not counted as a failure.  Once the run's context is
\* cancelled, a worker that is not inside transferFile never enters it: the
\* jobs still queued and the job it may have received are dropped, and
\* dropping a job changes neither TransferredFiles nor FailedFiles.
C35_CancelledJobsNotCounted ==
    [][\A w \in DOMAIN worker :
          (/\ ctxDone
           /\ run'.n = run.n
           /\ worker[w].pc \in OutsideTransfer
           /\ worker'[w] # worker[w])
          => /\ worker'[w].pc \in {"check", "exit"}
             /\ worker[w].pc # "exit"
             /\ Stats' = Stats]_vars

\* after the cancellation one job was received and dropped, another is still
\* queued, and neither was counted
C35_Witness ==
    /\ ctxDone
    /\ \E w \in DOMAIN worker : Dropped(w)
    /\ tasks # <<>>
    /\ Counted = 0

-----------------------------------------------------------------------------
(* The web GUI with the engine's log output going through LogWriter *)

WebLogNext ==
    \/ WebNext
    \/ LogWriterWrite
    \/ LogWriterAddLog

SpecWebLog == InitWeb /\ [][WebLogNext]_vars

\* an entry is appended to the user-visible log in this step
Appended == logs' # logs

\* C36: once a stop was requested for the current run (w.cancelled is set) and
\* until the next start, no message with a teardown pattern in it is appended
\* to the user-visible log; without a stop request the message is appended as
\* printed; the engine's statistics are never touched.
C36_NoTeardownMessageAfterStop ==
    [][Appended =>
          /\ webGui.cancelled => ~HasTeardownPattern(logs'[Len(logs')].msg)
          /\ logs'[Len(logs')].msg = webGui.write
          /\ Stats' = Stats]_vars

-----------------------------------------------------------------------------
(* One sync execution at a time in the web GUI *)

\* a SyncWithContext call is executing: that of the current sync goroutine,
\* or that of the sync goroutine of an earlier start
SyncExecuting == webGui.sync = "running" \/ webGui.stale

\* C37: in the web GUI at most one sync execution exists at any time: while
\* isRunning is false no SyncWithContext call of an earlier start is still
\* executing, and the call of a newly accepted start never runs together with
\* that of an earlier one.
C37_AtMostOneSyncExecution ==
    /\ ~webGui.isRunning => ~SyncExecuting
    /\ ~(webGui.sync = "running" /\ webGui.stale)

-----------------------------------------------------------------------------
(* The status shown while no sync is running *)

TransientStatuses == {"Starting...", "Running...", "Stopping..."}

\* C38: in the web GUI, whenever isRunning is false the status is a resting
\* one (Ready, Completed, Failed, Cancelled or an Error status), never
\* Starting..., Running... or Stopping..., however the stop handler and the
\* end of runSync interleave.
C38_RestingStatusWhenNotRunning ==
    ~webGui.isRunning => webGui.status \notin TransientStatuses

-----------------------------------------------------------------------------
(* The web GUI with a runSync goroutine that keeps being scheduled *)

\* the steps of the runSync goroutine: none of them blocks but the select of
\* line 518, which a done context enables, and the wait of line 538, which the
\* timer ends.  The sync goroutine (SyncGoStart, SyncGoReturn) is under no
\* such assumption: SyncWithContext may never return.
RunSyncNext ==
    \/ RunSyncBegin
    \/ RunSyncSetup
    \/ RunSyncLoad
    \/ RunSyncWait
    \/ RunSyncGrace
    \/ RunSyncCleanup

SpecWebLive == InitWeb /\ [][WebNext]_vars /\ WF_vars(RunSyncNext)

\* a stop request was accepted for the current run
StopAccepted == webGui.isRunning /\ webGui.cancelled

\* C39: after a stop request was accepted the web GUI eventually leaves the
\* running state, whether or not the sync goroutine ever returns, and in that
\* state a start request is accepted.
C39_StopLeadsToNotRunning ==
    /\ StopAccepted ~> ~webGui.isRunning
    /\ [](~webGui.isRunning => startHandler(webGui).response = "accepted")

\* the run was stopped, the wait timed out, and the GUI is not running while
\* the sync goroutine still is
C39_Witness ==
    /\ webGui.cancelled
    /\ webGui.timedOut
    /\ ~webGui.isRunning
    /\ webGui.sync = "running"

====
